---- MODULE Spec2Model ----
(***************************************************************************)
(* State-machine model of te-shader-play: the uniform value model, the     *)
(* Binding / BindingGroup / BindingSet operations, persistence of a        *)
(* BindingSet in save.json, and the pipeline build / repair loop.          *)
(*                                                                         *)
(* Conventions                                                             *)
(*  - group and binding indices are 0-based as in the source; a TLA+       *)
(*    sequence is indexed with index + 1.                                  *)
(*  - an f32 is a fixed-point number counted in tenths (F32(2.5) is 25);   *)
(*    u32 / i32 are integers of width IntBits.                             *)
(*  - to_le_bytes yields a sequence of 4-byte words, one word per u32,     *)
(*    i32 or f32 item; a byte length is 4 * the number of words.           *)
(*  - a panic (unwrap on an error, unreachable!, todo!, index out of       *)
(*    range) ends the process: pc = "aborted".                             *)
(***************************************************************************)
EXTENDS Integers, Sequences, FiniteSets, TLC

(***************************************************************************)
(* Bounds of the model.                                                    *)
(***************************************************************************)
IntBits == 6
MaxGroups == 3
MaxBindings == 3
MaxEvents == 2
MaxTime == 1

(***************************************************************************)
(* Generic helpers.                                                        *)
(***************************************************************************)
None == [some |-> FALSE]
Some(x) == [some |-> TRUE, v |-> x]

Min(S) == CHOOSE x \in S : \A y \in S : x <= y
Max(S) == CHOOSE x \in S : \A y \in S : x >= y

Range(s) == {s[i] : i \in DOMAIN s}

RECURSIVE Flatten(_)
Flatten(ss) == IF ss = <<>> THEN <<>> ELSE Head(ss) \o Flatten(Tail(ss))

Zeros(n) == [i \in 1..n |-> 0]

(***************************************************************************)
(* Scalar types and numeric casts.                                         *)
(***************************************************************************)
ScalarType == {"U32", "I32", "F32"}

U32_MAX == 2^IntBits - 1
I32_MAX == 2^(IntBits - 1) - 1
I32_MIN == -(2^(IntBits - 1))

DEFAULT_U32_UNIFORM == 0

\* f32 -> integer: truncation toward zero of a value counted in tenths
Trunc(f) == IF f >= 0 THEN f \div 10 ELSE -((-f) \div 10)

\* Rust `v as i32` for an f32: truncates and saturates
f32_as_i32(f) ==
    LET t == Trunc(f)
    IN  IF t > I32_MAX THEN I32_MAX ELSE IF t < I32_MIN THEN I32_MIN ELSE t

\* a u32 to i32 conversion that saturates
u32_as_i32_saturating(u) == IF u > I32_MAX THEN I32_MAX ELSE u

\* Rust `v as i32` for a u32: wraps
u32_as_i32(u) == IF u > I32_MAX THEN u - 2^IntBits ELSE u

\* Rust `v as f32` for an integer
int_as_f32(n) == n * 10

cast_i32_u32(v) == IF v >= 0 THEN v ELSE DEFAULT_U32_UNIFORM

cast_f32_u32(v) == cast_i32_u32(f32_as_i32(v))

\* the cast of one number from scalar type `from` to scalar type `to`
cast_num(from, to, v) ==
    CASE from = "U32" /\ to = "I32" -> u32_as_i32(v)
      [] from = "U32" /\ to = "F32" -> int_as_f32(v)
      [] from = "I32" /\ to = "U32" -> cast_i32_u32(v)
      [] from = "I32" /\ to = "F32" -> int_as_f32(v)
      [] from = "F32" /\ to = "U32" -> cast_f32_u32(v)
      [] from = "F32" /\ to = "I32" -> f32_as_i32(v)
      [] OTHER -> v

(***************************************************************************)
(* UniformValue and UniformType.                                           *)
(***************************************************************************)
MatrixType == {<<c, r>> : c \in 2..4, r \in 2..4}     \* Column x Row

ScalarT(s) == [k |-> "Scalar", t |-> s]
VecT(n, s) == [k |-> "Vec", n |-> n, t |-> s]
MatrixT(m) == [k |-> "Matrix", m |-> m]
TransformT == [k |-> "Transform"]

UniformType ==
    {ScalarT(s) : s \in ScalarType}
    \cup {VecT(n, s) : n \in 2..4, s \in ScalarType}
    \cup {MatrixT(m) : m \in MatrixType}
    \cup {TransformT}

Scalar(s, x) == [k |-> "Scalar", t |-> s, v |-> <<x>>]
Vector(s, xs) == [k |-> "Vector", t |-> s, v |-> xs]
Matrix(m, cols) == [k |-> "Matrix", m |-> m, cols |-> cols]
Transform(tr, sc, rot) ==
    [k |-> "Transform", translation |-> tr, scale |-> sc, rotation |-> rot]
Time == [k |-> "BuiltIn", b |-> "Time"]
Camera(en) == [k |-> "BuiltIn", b |-> "Camera", enabled |-> en]

DEFAULT_UNIFORM == Scalar("F32", 0)

ZeroMatrix(m) == Matrix(m, [c \in 1..m[1] |-> Zeros(m[2])])

TransformDefault == Transform(<<0, 0, 0>>, <<10, 10, 10>>, <<0, 0, 0, 0>>)

IsBuiltIn(v) == v.k = "BuiltIn"
IsTime(v) == v.k = "BuiltIn" /\ v.b = "Time"
IsCamera(v) == v.k = "BuiltIn" /\ v.b = "Camera"

(***************************************************************************)
(* cast_to.                                                                *)
(***************************************************************************)
Scalar_cast_to_scalar(v, s) == Scalar(s, cast_num(v.t, s, v.v[1]))

\* cast_to_vec that fills every component with the scalar, where the code
\* fills component 0 and leaves zeros
Scalar_cast_to_vec_splat(v, n, s) ==
    Vector(s, [i \in 1..n |-> cast_num(v.t, s, v.v[1])])

Scalar_cast_to_vec(v, n, s) ==
    Vector(s, [i \in 1..n |-> IF i = 1 THEN cast_num(v.t, s, v.v[1]) ELSE 0])

Vec_cast_to_scalar(v, s) == Scalar(s, cast_num(v.t, s, v.v[1]))

\* the four-element array `vec4` of the cast components: the source's
\* components cast one by one, then zeros (a Vec3 of I32 cast to I32 repeats
\* z in the fourth place)
Vec_cast_vec4(v, s) ==
    [i \in 1..4 |->
        IF i <= Len(v.v) THEN cast_num(v.t, s, v.v[i])
        ELSE IF Len(v.v) = 3 /\ v.t = "I32" /\ s = "I32" THEN v.v[3]
        ELSE 0]

\* the result is built from vec4[0] and vec4[1] alone: (0, 1), (0, 1, 0) or
\* (0, 1, 0, 1)
Vec_cast_to_vec(v, n, s) ==
    LET vec4 == Vec_cast_vec4(v, s)
    IN  Vector(s, [i \in 1..n |-> vec4[((i - 1) % 2) + 1]])

\* cast_to_matrix with rows and columns exchanged
cast_to_matrix_transposed(v, m) == ZeroMatrix(<<m[2], m[1]>>)

cast_to_matrix(v, m) == ZeroMatrix(m)

cast_to_transform(v) == TransformDefault

Zero_cast_to_scalar(v, s) == Scalar(s, 0)

Zero_cast_to_vec(v, n, s) == Vector(s, Zeros(n))

\* UniformValue::cast_to panics on a BuiltIn, Transform::cast_to on Transform
cast_to_panics(v, ty) ==
    \/ v.k = "BuiltIn"
    \/ v.k = "Transform" /\ ty.k = "Transform"

cast_to(v, ty) ==
    CASE ty.k = "Scalar" ->
           (CASE v.k = "Scalar" -> Scalar_cast_to_scalar(v, ty.t)
              [] v.k = "Vector" -> Vec_cast_to_scalar(v, ty.t)
              [] OTHER -> Zero_cast_to_scalar(v, ty.t))
      [] ty.k = "Vec" ->
           (CASE v.k = "Scalar" -> Scalar_cast_to_vec(v, ty.n, ty.t)
              [] v.k = "Vector" -> Vec_cast_to_vec(v, ty.n, ty.t)
              [] OTHER -> Zero_cast_to_vec(v, ty.n, ty.t))
      [] ty.k = "Matrix" -> cast_to_matrix(v, ty.m)
      [] OTHER -> cast_to_transform(v)

(***************************************************************************)
(* to_le_bytes: the encoding as a sequence of 4-byte words.                *)
(***************************************************************************)
ZeroWord == [w |-> "bits", n |-> 0]

Word(t, x) ==
    IF x = 0 THEN ZeroWord
    ELSE IF t = "F32" THEN [w |-> "f32", n |-> x]
    ELSE [w |-> "bits", n |-> x % (2^IntBits)]

Scalar_to_le_bytes(v) == <<Word(v.t, v.v[1])>>

\* to_le_bytes that pads a Vec3 to the 16 bytes of its alignment
Vec_to_le_bytes_aligned(v) ==
    [i \in 1..(IF Len(v.v) = 3 THEN 4 ELSE Len(v.v)) |->
        IF i <= Len(v.v) THEN Word(v.t, v.v[i]) ELSE ZeroWord]

Vec_to_le_bytes(v) == [i \in 1..Len(v.v) |-> Word(v.t, v.v[i])]

Column_to_le_bytes(col) == [i \in 1..Len(col) |-> Word("F32", col[i])]

Matrix_to_le_bytes(v) ==
    Flatten([c \in 1..Len(v.cols) |-> Column_to_le_bytes(v.cols[c])])

\* the product of two f32 numbers counted in tenths
fmul(a, b) == (a * b) \div 10

\* Matrix3::from(Quaternion): the columns of the rotation matrix of the
\* quaternion q = <<s, x, y, z>>
Matrix3_from_quaternion(q) ==
    LET sx2 == fmul(q[2] + q[2], q[1])
        sy2 == fmul(q[3] + q[3], q[1])
        sz2 == fmul(q[4] + q[4], q[1])
        xx2 == fmul(q[2] + q[2], q[2])
        xy2 == fmul(q[2] + q[2], q[3])
        xz2 == fmul(q[2] + q[2], q[4])
        yy2 == fmul(q[3] + q[3], q[3])
        yz2 == fmul(q[3] + q[3], q[4])
        zz2 == fmul(q[4] + q[4], q[4])
    IN  << <<10 - yy2 - zz2, xy2 + sz2, xz2 - sy2>>,
           <<xy2 - sz2, 10 - xx2 - zz2, yz2 + sx2>>,
           <<xz2 + sy2, yz2 - sx2, 10 - xx2 - yy2>> >>

\* first column of translation * rotation * scale
TransformMatrixX(v) ==
    LET r == Matrix3_from_quaternion(v.rotation)[1]
    IN  <<fmul(r[1], v.scale[1]), fmul(r[2], v.scale[1]), fmul(r[3], v.scale[1]), 0>>

Vector4_to_le_bytes(x) == [i \in 1..4 |-> Word("F32", x[i])]

Matrix4_to_le_bytes(x) == Vector4_to_le_bytes(x)

Transform_to_le_bytes(v) == Matrix4_to_le_bytes(TransformMatrixX(v))

CameraBlock(name, en, n) == [i \in 1..n |-> [w |-> name, en |-> en, i |-> i]]

CameraUniform_to_le_bytes(v) ==
    CameraBlock("position", v.enabled, 4)
    \o CameraBlock("projection", v.enabled, 16)
    \o CameraBlock("view", v.enabled, 16)
    \o CameraBlock("inverse_view", v.enabled, 16)
    \o CameraBlock("inverse_projection", v.enabled, 16)

BuiltinValue_to_le_bytes(v) ==
    IF v.b = "Time" THEN <<Word("U32", 0)>> ELSE CameraUniform_to_le_bytes(v)

to_le_bytes(v) ==
    CASE v.k = "BuiltIn" -> BuiltinValue_to_le_bytes(v)
      [] v.k = "Scalar" -> Scalar_to_le_bytes(v)
      [] v.k = "Vector" -> Vec_to_le_bytes(v)
      [] v.k = "Matrix" -> Matrix_to_le_bytes(v)
      [] OTHER -> Transform_to_le_bytes(v)

ByteLen(v) == 4 * Len(to_le_bytes(v))

(***************************************************************************)
(* Device buffers.  A buffer is a handle (id), a size in bytes fixed at    *)
(* creation, and its contents in words.                                    *)
(***************************************************************************)
Fresh(used) == Min({i \in 0..Cardinality(used) : i \notin used})

create_buffer_init(id, contents) ==
    [id |-> id, size |-> 4 * Len(contents), data |-> contents]

\* Queue::write_buffer at offset 0 fails when the data overruns the buffer
write_buffer_fails(buffer, data) == 4 * Len(data) > buffer.size

write_buffer(buffer, data) ==
    [buffer EXCEPT !.data =
        [i \in 1..Len(buffer.data) |->
            IF i <= Len(data) THEN data[i] ELSE buffer.data[i]]]

(***************************************************************************)
(* UniformBinding.                                                         *)
(***************************************************************************)
UniformBinding_new(value, id) ==
    [buffer |-> create_buffer_init(id, to_le_bytes(value)),
     value |-> value,
     name |-> "unnamed"]

\* change_type that always writes into the existing buffer
UniformBinding_change_type_in_place(b, new_type, id) ==
    [b EXCEPT !.value = cast_to(b.value, new_type),
              !.buffer = write_buffer(b.buffer, to_le_bytes(cast_to(b.value, new_type)))]

UniformBinding_change_type(b, new_type, id) ==
    LET old_size == ByteLen(b.value)
        new_value == cast_to(b.value, new_type)
        new_bytes == to_le_bytes(new_value)
    IN  IF 4 * Len(new_bytes) # old_size
        THEN [b EXCEPT !.value = new_value,
                       !.buffer = create_buffer_init(id, new_bytes)]
        ELSE [b EXCEPT !.value = new_value,
                       !.buffer = write_buffer(b.buffer, new_bytes)]

\* the value is replaced, then its bytes are written into the existing buffer
UniformBinding_rewrite(b, new_value) ==
    [b EXCEPT !.value = new_value,
              !.buffer = IF write_buffer_fails(b.buffer, to_le_bytes(new_value))
                         THEN b.buffer
                         ELSE write_buffer(b.buffer, to_le_bytes(new_value))]

\* an integer result kept in the width of its type (a build without
\* overflow checks wraps)
Wrap(t, x) ==
    CASE t = "U32" -> x % (2^IntBits)
      [] t = "I32" -> ((x - I32_MIN) % (2^IntBits)) + I32_MIN
      [] OTHER -> x

ScalarUniformValue_increase(v) ==
    Scalar(v.t, IF v.t = "F32" THEN v.v[1] + 10 ELSE Wrap(v.t, v.v[1] + 1))

ScalarUniformValue_decrease(v) ==
    Scalar(v.t, IF v.t = "F32" THEN v.v[1] - 10 ELSE Wrap(v.t, v.v[1] - 1))

\* `*v += 1` / `*v -= 1` overflow: a panic in a build with overflow checks,
\* a wrapped result in a build without them
arith_overflows(v, d) ==
    \/ v.t = "U32" /\ (v.v[1] + d > U32_MAX \/ v.v[1] + d < 0)
    \/ v.t = "I32" /\ (v.v[1] + d > I32_MAX \/ v.v[1] + d < I32_MIN)

VectorUniformValue_change_inner_type(v, inner_type) ==
    Vector(inner_type, [i \in 1..Len(v.v) |-> cast_num(v.t, inner_type, v.v[i])])

MatrixUniformValue_change_matrix_size(v, matrix_size) ==
    cast_to_matrix(v, matrix_size)

UniformBinding_increase(b) ==
    UniformBinding_rewrite(b, ScalarUniformValue_increase(b.value))

UniformBinding_decrease(b) ==
    UniformBinding_rewrite(b, ScalarUniformValue_decrease(b.value))

UniformBinding_change_inner_type(b, inner_type) ==
    UniformBinding_rewrite(b, VectorUniformValue_change_inner_type(b.value, inner_type))

UniformBinding_change_matrix_size(b, matrix_size) ==
    UniformBinding_rewrite(b, MatrixUniformValue_change_matrix_size(b.value, matrix_size))

(***************************************************************************)
(* change_binding_size and its table.                                      *)
(***************************************************************************)
DEFAULT_SIZEN_TYPE_LEN == 65

DEFAULT_SIZEN_TYPE(n) ==
    CASE n = 4 -> Some(ScalarT("F32"))
      [] n = 8 -> Some(VecT(2, "F32"))
      [] n = 12 -> Some(VecT(3, "F32"))
      [] n = 16 -> Some(VecT(4, "F32"))
      [] n = 24 -> Some(MatrixT(<<2, 3>>))
      [] n = 32 -> Some(MatrixT(<<2, 4>>))
      [] n = 36 -> Some(MatrixT(<<3, 3>>))
      [] n = 48 -> Some(MatrixT(<<3, 4>>))
      [] n = 64 -> Some(MatrixT(<<4, 4>>))
      [] OTHER -> None

\* .get(new_size).unwrap().unwrap(), then change_type -> cast_to
UniformBinding_change_binding_size_panics(b, new_size) ==
    \/ new_size >= DEFAULT_SIZEN_TYPE_LEN
    \/ ~DEFAULT_SIZEN_TYPE(new_size).some
    \/ cast_to_panics(b.value, DEFAULT_SIZEN_TYPE(new_size).v)

UniformBinding_change_binding_size(b, new_size, id) ==
    UniformBinding_change_type(b, DEFAULT_SIZEN_TYPE(new_size).v, id)

(***************************************************************************)
(* UniformGroup: the ordered bindings and the bind group built from them   *)
(* (one entry per binding, entry i bound to the whole of the buffer that   *)
(* binding i had when the bind group was created).                         *)
(***************************************************************************)
UniformGroup_new == [bindings |-> <<>>, bind_group |-> <<>>]

refresh_bind_group(g) ==
    [g EXCEPT !.bind_group =
        [i \in 1..Len(g.bindings) |->
            [id |-> g.bindings[i].buffer.id, size |-> g.bindings[i].buffer.size]]]

bg_layout(g) == Len(g.bindings)

UniformGroup_add_custom(g, uniform, id) ==
    refresh_bind_group([g EXCEPT !.bindings = Append(@, UniformBinding_new(uniform, id))])

UniformGroup_add_f32(g, id) == UniformGroup_add_custom(g, DEFAULT_UNIFORM, id)

GroupIds(g) ==
    {g.bindings[i].buffer.id : i \in 1..Len(g.bindings)}
    \cup {g.bind_group[i].id : i \in 1..Len(g.bind_group)}

\* define_binding with `if` where the code has `while`: one binding is
\* added at most
UniformGroup_define_binding_if(g, binding, used) ==
    IF binding >= Len(g.bindings)
    THEN UniformGroup_add_f32(g, Fresh(used \cup GroupIds(g)))
    ELSE g

RECURSIVE UniformGroup_define_binding(_, _, _)
UniformGroup_define_binding(g, binding, used) ==
    IF binding >= Len(g.bindings)
    THEN LET id == Fresh(used \cup GroupIds(g))
         IN  UniformGroup_define_binding(UniformGroup_add_f32(g, id), binding, used)
    ELSE g

UniformGroup_set_name(g, b_index, name) ==
    [g EXCEPT !.bindings[b_index + 1].name = name]

\* a binding operation that is not followed by refresh_bind_group
UniformGroup_with_stale(g, b_index, nb) ==
    [g EXCEPT !.bindings[b_index + 1] = nb]

\* a binding operation followed by refresh_bind_group
UniformGroup_with(g, b_index, nb) ==
    refresh_bind_group([g EXCEPT !.bindings[b_index + 1] = nb])

(***************************************************************************)
(* Uniforms: the BindingSet.                                               *)
(***************************************************************************)
UsedIds(u) == UNION {GroupIds(u.groups[i]) : i \in 1..Len(u.groups)}

InRange(u, g_index, b_index) ==
    /\ g_index + 1 \in 1..Len(u.groups)
    /\ b_index + 1 \in 1..Len(u.groups[g_index + 1].bindings)

BindingAt(u, g_index, b_index) == u.groups[g_index + 1].bindings[b_index + 1]

Uniforms_new(used) ==
    LET id0 == Fresh(used)
        group0 == UniformGroup_add_custom(UniformGroup_new, Time, id0)
        id1 == Fresh(used \cup {id0})
        group1 == UniformGroup_add_custom(UniformGroup_new, Camera(FALSE), id1)
    IN  [groups |-> <<group0, group1>>,
         time_uniform_location |-> <<0, 0>>,
         camera_uniform_location |-> <<1, 0>>]

Uniforms_add_f32(u, g_index) ==
    [u EXCEPT !.groups[g_index + 1] = UniformGroup_add_f32(@, Fresh(UsedIds(u)))]

\* add_bind_group that appends a group holding one default binding, where
\* the code appends an empty group
Uniforms_add_bind_group_f32(u) ==
    [u EXCEPT !.groups = Append(@, UniformGroup_add_f32(UniformGroup_new, Fresh(UsedIds(u))))]

Uniforms_add_bind_group(u) == [u EXCEPT !.groups = Append(@, UniformGroup_new)]

Uniforms_update_buffer(u, g_index, b_index) ==
    [u EXCEPT !.groups[g_index + 1].bindings[b_index + 1].buffer =
        write_buffer(@, to_le_bytes(BindingAt(u, g_index, b_index).value))]

Uniforms_update_time_panics(u) ==
    LET loc == u.time_uniform_location
    IN  \/ ~InRange(u, loc[1], loc[2])
        \/ BindingAt(u, loc[1], loc[2]).value # Time

\* update_time that replaces the buffer of the Time binding by a new one
Uniforms_update_time_realloc(u, elapsed_time) ==
    LET loc == u.time_uniform_location
    IN  [u EXCEPT !.groups[loc[1] + 1].bindings[loc[2] + 1].buffer =
            create_buffer_init(Fresh(UsedIds(u)), <<Word("U32", elapsed_time)>>)]

Uniforms_update_time(u, elapsed_time) ==
    LET loc == u.time_uniform_location
    IN  [u EXCEPT !.groups[loc[1] + 1].bindings[loc[2] + 1].buffer =
            write_buffer(@, <<Word("U32", elapsed_time)>>)]

Uniforms_enable_camera_panics(u) ==
    LET loc == u.camera_uniform_location
    IN  \/ ~InRange(u, loc[1], loc[2])
        \/ ~IsCamera(BindingAt(u, loc[1], loc[2]).value)

Uniforms_enable_camera(u, enable) ==
    LET loc == u.camera_uniform_location
        u1 == [u EXCEPT !.groups[loc[1] + 1].bindings[loc[2] + 1].value.enabled = enable]
    IN  Uniforms_update_buffer(u1, loc[1], loc[2])

RECURSIVE Uniforms_define_binding(_, _, _)
Uniforms_define_binding(u, group, binding) ==
    IF group >= Len(u.groups)
    THEN Uniforms_define_binding(Uniforms_add_bind_group(u), group, binding)
    ELSE [u EXCEPT !.groups[group + 1] =
            UniformGroup_define_binding(@, binding, UsedIds(u))]

Uniforms_change_type(u, unitype, g_index, b_index) ==
    [u EXCEPT !.groups[g_index + 1] =
        UniformGroup_with(@, b_index,
            UniformBinding_change_type(BindingAt(u, g_index, b_index), unitype,
                                       Fresh(UsedIds(u))))]

Uniforms_increase(u, g_index, b_index) ==
    [u EXCEPT !.groups[g_index + 1].bindings[b_index + 1] = UniformBinding_increase(@)]

Uniforms_decrease(u, g_index, b_index) ==
    [u EXCEPT !.groups[g_index + 1].bindings[b_index + 1] = UniformBinding_decrease(@)]

Uniforms_change_inner_type(u, inner_type, g_index, b_index) ==
    [u EXCEPT !.groups[g_index + 1] =
        UniformGroup_with(@, b_index,
            UniformBinding_change_inner_type(BindingAt(u, g_index, b_index), inner_type))]

Uniforms_change_binding_size_panics(u, g_index, b_index, new_size) ==
    \/ ~InRange(u, g_index, b_index)
    \/ UniformBinding_change_binding_size_panics(BindingAt(u, g_index, b_index), new_size)

Uniforms_change_binding_size(u, g_index, b_index, new_size) ==
    [u EXCEPT !.groups[g_index + 1] =
        UniformGroup_with(@, b_index,
            UniformBinding_change_binding_size(BindingAt(u, g_index, b_index), new_size,
                                               Fresh(UsedIds(u))))]

\* the write into the existing buffer overruns it when the new shape is larger
Uniforms_change_matrix_size_panics(u, matrix_size, g_index, b_index) ==
    LET b == BindingAt(u, g_index, b_index)
    IN  write_buffer_fails(b.buffer,
            to_le_bytes(MatrixUniformValue_change_matrix_size(b.value, matrix_size)))

\* on the panic the value is already replaced and refresh_bind_group is not reached
Uniforms_change_matrix_size(u, matrix_size, g_index, b_index) ==
    LET nb == UniformBinding_change_matrix_size(BindingAt(u, g_index, b_index), matrix_size)
    IN  IF Uniforms_change_matrix_size_panics(u, matrix_size, g_index, b_index)
        THEN [u EXCEPT !.groups[g_index + 1].bindings[b_index + 1] = nb]
        ELSE [u EXCEPT !.groups[g_index + 1] = UniformGroup_with(@, b_index, nb)]


(***************************************************************************)
(* JSON values (serde_json::Value).  A number is PosInt, NegInt or Float;  *)
(* a Float is counted in tenths like an f32.                               *)
(***************************************************************************)
JNull == [j |-> "null"]
JNum(kind, n) == [j |-> "num", kind |-> kind, n |-> n]
JStr(s) == [j |-> "str", s |-> s]
JBool(b) == [j |-> "bool", b |-> b]
JArr(a) == [j |-> "arr", a |-> a]
JObj(o) == [j |-> "obj", o |-> o]
EmptyMap == <<>>

\* Number::from for an integer, and From<f32> for a (finite) float
JInt(n) == IF n < 0 THEN JNum("neg", n) ELSE JNum("pos", n)
JFloat(f) == JNum("float", f)

Map_get(o, key) == IF key \in DOMAIN o THEN Some(o[key]) ELSE None
Value_get(v, key) == IF v.j = "obj" THEN Map_get(v.o, key) ELSE None
Array_get(a, i) == IF i + 1 \in 1..Len(a) THEN Some(a[i + 1]) ELSE None

as_object(v) == IF v.j = "obj" THEN Some(v.o) ELSE None
as_array(v) == IF v.j = "arr" THEN Some(v.a) ELSE None
as_str(v) == IF v.j = "str" THEN Some(v.s) ELSE None
as_bool(v) == IF v.j = "bool" THEN Some(v.b) ELSE None
as_u64(v) == IF v.j = "num" /\ v.kind = "pos" THEN Some(v.n) ELSE None
as_i64(v) == IF v.j = "num" /\ v.kind \in {"pos", "neg"} THEN Some(v.n) ELSE None
as_f64(v) ==
    IF v.j = "num"
    THEN Some(IF v.kind = "float" THEN v.n ELSE v.n * 10)
    ELSE None

\* `x as u32` / `x as i32` of a 64-bit integer: truncation to the width
u64_as_u32(n) == n % (2^IntBits)
i64_as_i32(n) == ((n + 2^(IntBits - 1)) % (2^IntBits)) - 2^(IntBits - 1)

ScalarTag(t) == CASE t = "U32" -> "u32" [] t = "I32" -> "i32" [] OTHER -> "f32"

\* the JSON number a component of scalar type t is written as
JComponent(t, x) == IF t = "F32" THEN JFloat(x) ELSE JInt(x)

\* reading one component of the scalar type tagged `tag`
read_component(tag, v) ==
    CASE tag = "f32" -> as_f64(v)
      [] tag = "u32" -> (IF as_u64(v).some THEN Some(u64_as_u32(as_u64(v).v)) ELSE None)
      [] tag = "i32" -> (IF as_i64(v).some THEN Some(i64_as_i32(as_i64(v).v)) ELSE None)
      [] OTHER -> None

TagScalar(tag) == CASE tag = "u32" -> "U32" [] tag = "i32" -> "I32" [] OTHER -> "F32"

(***************************************************************************)
(* to_json / from_json of the value families.                              *)
(***************************************************************************)
ScalarUniformValue_to_json(v, json_obj) ==
    ("innertype" :> JStr(ScalarTag(v.t))) @@ json_obj

ScalarUniformValue_from_json(uniform) ==
    LET value == Map_get(uniform, "value")
        inner == Map_get(uniform, "innertype")
    IN  IF ~value.some \/ ~inner.some THEN None
        ELSE IF ~as_str(inner.v).some THEN None
        ELSE LET tag == as_str(inner.v).v
                 val == read_component(tag, value.v)
             IN  IF val.some THEN Some(Scalar(TagScalar(tag), val.v)) ELSE None

VecTag(n) == CASE n = 2 -> "vec2" [] n = 3 -> "vec3" [] OTHER -> "vec4"
ItemKey(i) == CASE i = 0 -> "item0" [] i = 1 -> "item1" [] i = 2 -> "item2" [] OTHER -> "item3"

VecN_to_json(v, json_obj) ==
    LET items == [key \in {ItemKey(i) : i \in 0..(Len(v.v) - 1)} |->
                    JComponent(v.t, v.v[(CHOOSE i \in 0..3 : ItemKey(i) = key) + 1])]
    IN  items @@ ("innertype2" :> JStr(ScalarTag(v.t))) @@ json_obj

VectorUniformValue_to_json(v, json_obj) ==
    VecN_to_json(v, ("innertype" :> JStr(VecTag(Len(v.v)))) @@ json_obj)

VecN_from_json(json_val, n) ==
    LET inner2 == Map_get(json_val, "innertype2")
    IN  IF ~inner2.some THEN None
        ELSE IF \E i \in 0..(n - 1) : ~Map_get(json_val, ItemKey(i)).some THEN None
        ELSE IF ~as_str(inner2.v).some THEN None
        ELSE LET tag == as_str(inner2.v).v
                 comp(i) == read_component(tag, json_val[ItemKey(i)])
             IN  IF tag \notin {"f32", "u32", "i32"} THEN None
                 ELSE IF \E i \in 0..(n - 1) : ~comp(i).some THEN None
                 ELSE Some(Vector(TagScalar(tag), [i \in 1..n |-> comp(i - 1).v]))

VectorUniformValue_from_json(uniform) ==
    LET inner == Map_get(uniform, "innertype")
    IN  IF ~inner.some THEN None
        ELSE IF ~as_str(inner.v).some THEN None
        ELSE LET tag == as_str(inner.v).v
             IN  CASE tag = "vec2" -> VecN_from_json(uniform, 2)
                   [] tag = "vec3" -> VecN_from_json(uniform, 3)
                   [] tag = "vec4" -> VecN_from_json(uniform, 4)
                   [] OTHER -> None

\* the tag to_json writes and the tag from_json accepts for a matrix shape
MatrixWriteTag(m) ==
    CASE m = <<2, 2>> -> "mat2x2" [] m = <<2, 3>> -> "mat2x3" [] m = <<2, 4>> -> "mat2x4"
      [] m = <<3, 2>> -> "mat3x2" [] m = <<3, 3>> -> "mat3x3" [] m = <<3, 4>> -> "mat3x4"
      [] m = <<4, 2>> -> "mat4x2" [] m = <<4, 3>> -> "mat4x3" [] OTHER -> "mat4x4"

MatrixReadTag(m) ==
    CASE m = <<2, 2>> -> "m2x2" [] m = <<2, 3>> -> "m2x3" [] m = <<2, 4>> -> "m2x4"
      [] m = <<3, 2>> -> "m3x2" [] m = <<3, 3>> -> "m3x3" [] m = <<3, 4>> -> "m3x4"
      [] m = <<4, 2>> -> "m4x2" [] m = <<4, 3>> -> "m4x3" [] OTHER -> "m4x4"

Column_to_json(col) == JArr([i \in 1..Len(col) |-> JFloat(col[i])])

Column_from_json(json_val, rows) ==
    IF Len(json_val) # rows THEN None
    ELSE IF \E i \in 1..rows : ~as_f64(json_val[i]).some THEN None
    ELSE Some([i \in 1..rows |-> as_f64(json_val[i]).v])

MatrixUniformValue_to_json(v, json_obj) ==
    ("columns" :> JArr([c \in 1..Len(v.cols) |-> Column_to_json(v.cols[c])]))
    @@ ("innertype" :> JStr(MatrixWriteTag(v.m))) @@ json_obj

MatrixUniformValue_from_json(uniform) ==
    LET columns == Map_get(uniform, "columns")
        inner == Map_get(uniform, "innertype")
    IN  IF ~columns.some THEN None
        ELSE IF ~as_array(columns.v).some THEN None
        ELSE LET cs == as_array(columns.v).v
             IN  IF Len(cs) < 2 \/ ~as_array(cs[1]).some \/ ~as_array(cs[2]).some THEN None
                 ELSE IF ~inner.some THEN None
                 ELSE IF ~as_str(inner.v).some THEN None
                 ELSE IF ~\E m \in MatrixType : MatrixReadTag(m) = as_str(inner.v).v THEN None
                 ELSE LET m == CHOOSE m \in MatrixType : MatrixReadTag(m) = as_str(inner.v).v
                          col(c) == Column_from_json(as_array(cs[c]).v, m[2])
                      IN  IF Len(cs) < m[1] THEN None
                          ELSE IF \E c \in 1..m[1] : ~as_array(cs[c]).some THEN None
                          ELSE IF \E c \in 1..m[1] : ~col(c).some THEN None
                          ELSE Some(Matrix(m, [c \in 1..m[1] |-> col(c).v]))

\* persistence of the BuiltIn and Transform families and the outer_type
\* dispatch, as the persistence format describes them
BuiltinValue_to_json(v, json_obj) ==
    IF v.b = "Time"
    THEN ("innertype" :> JStr("time")) @@ json_obj
    ELSE ("innertype" :> JStr("camera")) @@ ("enabled" :> JBool(v.enabled)) @@ json_obj

BuiltinValue_from_json(uniform) ==
    LET inner == Map_get(uniform, "innertype")
    IN  IF ~inner.some THEN None
        ELSE IF ~as_str(inner.v).some THEN None
        ELSE CASE as_str(inner.v).v = "time" -> Some(Time)
               [] as_str(inner.v).v = "camera" ->
                    (LET en == Map_get(uniform, "enabled")
                     IN  IF ~en.some THEN None
                         ELSE IF ~as_bool(en.v).some THEN None
                         ELSE Some(Camera(as_bool(en.v).v)))
               [] OTHER -> None

FloatArray(xs) == JArr([i \in 1..Len(xs) |-> JFloat(xs[i])])

FloatArray_from_json(v, n) ==
    IF ~as_array(v).some THEN None ELSE Column_from_json(as_array(v).v, n)

TransformUniformValue_to_json(v, json_obj) ==
    ("translation" :> FloatArray(v.translation)) @@ ("scale" :> FloatArray(v.scale))
    @@ ("rotation" :> FloatArray(v.rotation)) @@ json_obj

TransformUniformValue_from_json(uniform) ==
    LET tr == Map_get(uniform, "translation")
        sc == Map_get(uniform, "scale")
        rot == Map_get(uniform, "rotation")
    IN  IF ~tr.some \/ ~sc.some \/ ~rot.some THEN None
        ELSE LET t == FloatArray_from_json(tr.v, 3)
                 s == FloatArray_from_json(sc.v, 3)
                 r == FloatArray_from_json(rot.v, 4)
             IN  IF t.some /\ s.some /\ r.some THEN Some(Transform(t.v, s.v, r.v)) ELSE None

OuterTag(v) ==
    CASE v.k = "BuiltIn" -> "builtin" [] v.k = "Scalar" -> "scalar"
      [] v.k = "Vector" -> "vector" [] v.k = "Matrix" -> "matrix" [] OTHER -> "transform"

UniformValue_to_json(v) ==
    LET json_obj == ("outer_type" :> JStr(OuterTag(v)))
    IN  JObj(CASE v.k = "BuiltIn" -> BuiltinValue_to_json(v, json_obj)
               [] v.k = "Scalar" -> ScalarUniformValue_to_json(v, json_obj)
               [] v.k = "Vector" -> VectorUniformValue_to_json(v, json_obj)
               [] v.k = "Matrix" -> MatrixUniformValue_to_json(v, json_obj)
               [] OTHER -> TransformUniformValue_to_json(v, json_obj))

UniformValue_from_json(uniform) ==
    LET outer == Map_get(uniform, "outer_type")
    IN  IF ~outer.some THEN None
        ELSE IF ~as_str(outer.v).some THEN None
        ELSE LET tag == as_str(outer.v).v
             IN  CASE tag = "builtin" -> BuiltinValue_from_json(uniform)
                   [] tag = "scalar" -> ScalarUniformValue_from_json(uniform)
                   [] tag = "vector" -> VectorUniformValue_from_json(uniform)
                   [] tag = "matrix" -> MatrixUniformValue_from_json(uniform)
                   [] tag = "transform" -> TransformUniformValue_from_json(uniform)
                   [] OTHER -> None

(***************************************************************************)
(* Uniforms::save and Uniforms::load.  save.json holds one JSON value, or  *)
(* is missing / not parseable (Unreadable).                                *)
(***************************************************************************)
Unreadable == [j |-> "unreadable"]

UniformBinding_to_json(b) ==
    JObj(("name" :> JStr(b.name)) @@ ("value" :> UniformValue_to_json(b.value)))

UniformGroup_to_json(g) ==
    JArr([i \in 1..Len(g.bindings) |-> UniformBinding_to_json(g.bindings[i])])

Location_to_json(loc) == JArr(<<JInt(loc[1]), JInt(loc[2])>>)

shader_conf(u) ==
    JObj(("time_uniform_location" :> Location_to_json(u.time_uniform_location))
         @@ ("camera_uniform_location" :> Location_to_json(u.camera_uniform_location))
         @@ ("groups" :> JArr([i \in 1..Len(u.groups) |-> UniformGroup_to_json(u.groups[i])])))

\* length in bytes of the compact text serde_json writes for a value
RECURSIVE Digits(_)
Digits(n) == IF n < 10 THEN 1 ELSE 1 + Digits(n \div 10)

NumLen(v) ==
    LET a == IF v.n < 0 THEN 0 - v.n ELSE v.n
        sign == IF v.n < 0 THEN 1 ELSE 0
    IN  IF v.kind = "float" THEN sign + Digits(a \div 10) + 2 ELSE sign + Digits(a)

RECURSIVE JsonLen(_)
RECURSIVE EntriesLen(_, _)
RECURSIVE ItemsLen(_, _)
ItemsLen(a, i) == IF i > Len(a) THEN 0 ELSE JsonLen(a[i]) + ItemsLen(a, i + 1)

EntriesLen(o, keys) ==
    IF keys = {} THEN 0
    ELSE LET k == CHOOSE k \in keys : TRUE
         IN  Len(k) + 3 + JsonLen(o[k]) + 1 + EntriesLen(o, keys \ {k})

JsonLen(v) ==
    CASE v.j = "null" -> 4
      [] v.j = "bool" -> (IF v.b THEN 4 ELSE 5)
      [] v.j = "num" -> NumLen(v)
      [] v.j = "str" -> Len(v.s) + 2
      [] v.j = "arr" ->
            (IF Len(v.a) = 0 THEN 2 ELSE 1 + Len(v.a) + ItemsLen(v.a, 1))
      [] v.j = "obj" ->
            (IF DOMAIN v.o = {} THEN 2 ELSE 1 + EntriesLen(v.o, DOMAIN v.o))

\* save.json: the value its text parses to (Unreadable when the file is
\* missing or is not JSON) and the length of the text
File(value) == [value |-> value, len |-> IF value.j = "unreadable" THEN 0 ELSE JsonLen(value)]

\* the file is opened with create + write and no truncate: text left over
\* from a longer previous content stays behind the new text
Uniforms_save(u, shader_name, file) ==
    LET config == IF file.value.j = "obj" THEN file.value.o ELSE EmptyMap
        new == JObj((shader_name :> shader_conf(u)) @@ config)
    IN  IF JsonLen(new) < file.len
        THEN [value |-> Unreadable, len |-> file.len]
        ELSE [value |-> new, len |-> JsonLen(new)]

\* an entry read with a default name when "name" is absent or no string
load_binding_default_name(uniform) ==
    LET name == Value_get(uniform, "name")
        value == Value_get(uniform, "value")
        n == IF name.some /\ as_str(name.v).some THEN as_str(name.v).v ELSE "unnamed"
    IN  IF ~value.some THEN None
        ELSE IF ~as_object(value.v).some THEN None
        ELSE LET val == UniformValue_from_json(as_object(value.v).v)
             IN  IF val.some THEN Some([name |-> n, value |-> val.v]) ELSE None

\* one {name, value} entry of a group
load_binding(uniform) ==
    LET name == Value_get(uniform, "name")
        value == Value_get(uniform, "value")
    IN  IF ~name.some THEN None
        ELSE IF ~as_str(name.v).some THEN None
        ELSE IF ~value.some THEN None
        ELSE IF ~as_object(value.v).some THEN None
        ELSE LET val == UniformValue_from_json(as_object(value.v).v)
             IN  IF val.some THEN Some([name |-> as_str(name.v).v, value |-> val.v]) ELSE None

load_location(arr) ==
    IF ~as_array(arr).some THEN None
    ELSE LET a == as_array(arr).v
         IN  IF ~Array_get(a, 0).some \/ ~Array_get(a, 1).some THEN None
             ELSE IF ~as_u64(a[1]).some \/ ~as_u64(a[2]).some THEN None
             ELSE Some(<<as_u64(a[1]).v, as_u64(a[2]).v>>)

RECURSIVE load_group(_, _, _)
load_group(entries, g, used) ==
    IF Len(g.bindings) = Len(entries) THEN g
    ELSE LET i == Len(g.bindings)
             g1 == UniformGroup_add_custom(g, entries[i + 1].value,
                                           Fresh(used \cup GroupIds(g)))
         IN  load_group(entries, UniformGroup_set_name(g1, i, entries[i + 1].name), used)

RECURSIVE load_groups(_, _, _)
load_groups(parsed, groups, used) ==
    IF Len(groups) = Len(parsed) THEN groups
    ELSE LET g == load_group(parsed[Len(groups) + 1], UniformGroup_new, used)
         IN  load_groups(parsed, Append(groups, g), used \cup GroupIds(g))

\* the positions <<group, index>> of the parsed entries
ParsedAt(parsed) ==
    {<<g, i>> \in (1..Len(parsed)) \X (1..MaxBindings + 2) : i <= Len(parsed[g])}

time_count(parsed) ==
    Cardinality({l \in ParsedAt(parsed) : IsTime(parsed[l[1]][l[2]].value)})

camera_count(parsed) ==
    Cardinality({l \in ParsedAt(parsed) : IsCamera(parsed[l[1]][l[2]].value)})

\* the check with `&&` where the code has `||`
builtin_counts_either(parsed) ==
    ~(time_count(parsed) # 1 /\ camera_count(parsed) # 1)

\* time_count != 1 || camera_count != 1 rejects the record
builtin_counts_ok(parsed) ==
    ~(time_count(parsed) # 1 \/ camera_count(parsed) # 1)

Uniforms_load(file, shader_name, used) ==
    LET conf == Value_get(file, shader_name)
    IN  IF ~conf.some THEN None
        ELSE IF ~as_object(conf.v).some THEN None
        ELSE LET config == as_object(conf.v).v
                 tl == Map_get(config, "time_uniform_location")
                 cl == Map_get(config, "camera_uniform_location")
                 gs == Map_get(config, "groups")
             IN  IF ~tl.some \/ ~cl.some THEN None
                 ELSE IF ~load_location(tl.v).some \/ ~load_location(cl.v).some THEN None
                 ELSE IF ~gs.some THEN None
                 ELSE IF ~as_array(gs.v).some THEN None
                 ELSE LET json_groups == as_array(gs.v).v
                          ok == \A g \in 1..Len(json_groups) :
                                   /\ as_array(json_groups[g]).some
                                   /\ \A i \in 1..Len(json_groups[g].a) :
                                          load_binding(json_groups[g].a[i]).some
                          parsed == [g \in 1..Len(json_groups) |->
                                       [i \in 1..Len(json_groups[g].a) |->
                                           load_binding(json_groups[g].a[i]).v]]
                      IN  IF ~ok THEN None
                          ELSE IF ~builtin_counts_ok(parsed)
                          THEN None
                          ELSE Some([groups |-> load_groups(parsed, <<>>, used),
                                     time_uniform_location |-> load_location(tl.v).v,
                                     camera_uniform_location |-> load_location(cl.v).v])

load_uniforms(u, file, shader_name) ==
    LET loaded == Uniforms_load(file.value, shader_name, UsedIds(u))
    IN  IF loaded.some THEN loaded.v ELSE Uniforms_new(UsedIds(u))


(***************************************************************************)
(* Shader modules and the device's validation.  A shader source either     *)
(* fails to compile, or compiles to a module that declares uniform         *)
(* bindings <<group, binding, size in bytes>>; a module may carry a fault  *)
(* that pipeline creation rejects for a reason other than a binding.       *)
(***************************************************************************)
ShaderSrc(id, compiles, decls, fault) ==
    [id |-> id, compiles |-> compiles, decls |-> decls, fault |-> fault]

dummy_shader == ShaderSrc("dummy", TRUE, {}, FALSE)

ShaderFiles ==
    { ShaderSrc("plain", TRUE, {}, FALSE),
      ShaderSrc("two", TRUE, {<<0, 2, 4>>, <<1, 0, 16>>}, FALSE),
      ShaderSrc("time8", TRUE, {<<0, 0, 8>>}, FALSE),
      ShaderSrc("mat", TRUE, {<<0, 1, 64>>, <<2, 0, 8>>}, FALSE),
      ShaderSrc("odd", TRUE, {<<0, 1, 20>>}, FALSE),
      ShaderSrc("big", TRUE, {<<0, 1, 80>>}, FALSE),
      ShaderSrc("noentry", TRUE, {}, TRUE),
      ShaderSrc("syntax", FALSE, {}, FALSE) }

ShaderNames == {"shader.wgsl", "other.wgsl"}

\* create_shader_module(...).to_string() of the error
CompileErrorText(src) == "shader compile error"

\* get_pipeline_layout: one bind group layout per group, entries 0..n-1
get_pipeline_layout(u) == [g \in 1..Len(u.groups) |-> bg_layout(u.groups[g])]

InLayout(layout, decl) ==
    /\ decl[1] + 1 \in 1..Len(layout)
    /\ decl[2] < layout[decl[1] + 1]

\* the errors create_render_pipeline can report for a module and a layout
\* (which of several missing bindings is named is the device's choice)
CreateRenderPipelineErrors(shader, layout) ==
    IF shader.fault THEN {[err |-> "Other"]}
    ELSE {[err |-> "Missing", group |-> d[1], binding |-> d[2]] :
            d \in {d \in shader.decls : ~InLayout(layout, d)}}

Pipelines(shader, layout) == [custom_shader |-> shader.id, decls |-> shader.decls,
                              layout |-> layout]

dummy_pipeline == Pipelines(dummy_shader, <<>>)

\* bind groups set by draw_custom_shader against the pipeline's layout
BindGroupsCompatible(p, u) ==
    \A g \in 1..Len(p.layout) :
        /\ g <= Len(u.groups)
        /\ Len(u.groups[g].bind_group) = p.layout[g]

\* a binding passes only when its buffer has exactly the declared size
Undersized_exact(p, u) ==
    {d \in p.decls : u.groups[d[1] + 1].bind_group[d[2] + 1].size # d[3]}

\* late validation: the bound buffer is smaller than the shader's type
Undersized(p, u) ==
    {d \in p.decls : u.groups[d[1] + 1].bind_group[d[2] + 1].size < d[3]}

LexMin(S) == CHOOSE d \in S : \A e \in S :
                 d[1] < e[1] \/ (d[1] = e[1] /\ d[2] <= e[2])

\* the result of render_pass.end() for the custom shader pass
DrawResult(p, u) ==
    IF ~BindGroupsCompatible(p, u) THEN [err |-> "IncompatibleBindGroup"]
    ELSE IF Undersized(p, u) # {}
    THEN LET d == LexMin(Undersized(p, u))
         IN  [err |-> "BindingSizeTooSmall", group_index |-> d[1],
              compact_index |-> d[2], shader_size |-> d[3]]
    ELSE [err |-> "Ok"]

(***************************************************************************)
(* The application state.                                                  *)
(***************************************************************************)
VARIABLES
    inputs,               \* im_state.ui.inputs : Uniforms (the BindingSet)
    current_shader,       \* [contents, shader] : the source text and the module
    current_shader_path,
    pipelines,            \* the active pipeline
    errors,               \* im_state.ui.errors
    show_errors,
    mesh_config,
    save_json,            \* contents of save.json
    pc,                   \* position in the frame / the handler being run
    ret,                  \* where the running handler returns to
    reported,             \* errors the running rebuild has reported and repaired
    cycles,               \* repairs made since the current module was installed
    events,               \* input events taken so far
    saved,                \* per shader name, the set the application last saved
    last                  \* the step just taken and its inputs

vars == <<inputs, current_shader, current_shader_path, pipelines, errors, show_errors,
          mesh_config, save_json, pc, ret, reported, cycles, events, saved, last>>

\* State::new up to its final refresh_pipelines(): shaders/shader.wgsl is
\* read, and the dummy module stands in when it does not compile
Init ==
    \E file \in ShaderFiles :
        /\ inputs = Uniforms_new({})
        /\ current_shader = [contents |-> file.id,
                             shader |-> IF file.compiles THEN file ELSE dummy_shader]
        /\ current_shader_path = "shader.wgsl"
        /\ pipelines = dummy_pipeline
        /\ errors = <<>>
        /\ show_errors = FALSE
        /\ mesh_config = "Screen2D"
        /\ save_json = File(Unreadable)
        /\ pc = "recreate_pipelines"
        /\ ret = "idle"
        /\ reported = {}
        /\ cycles = 0
        /\ events = 0
        /\ saved = [n \in ShaderNames |-> None]
        /\ last = [op |-> "new"]


(***************************************************************************)
(* recreate_pipelines / handle_pipeline_err: one step per build attempt.   *)
(***************************************************************************)
\* a panic (unwrap, todo!, unreachable!, assert!): the process is gone
Abort(where, info) ==
    /\ pc' = "aborted"
    /\ last' = [op |-> "panic", where |-> where, info |-> info]

\* a handler starts refresh_pipelines and will return to `to`
StartRebuild(to) ==
    /\ pc' = "recreate_pipelines"
    /\ ret' = to
    /\ reported' = {}

\* refresh_pipelines: the attempt succeeded and the result becomes active
BuildOk ==
    /\ pc = "recreate_pipelines"
    /\ CreateRenderPipelineErrors(current_shader.shader, get_pipeline_layout(inputs)) = {}
    /\ pipelines' = Pipelines(current_shader.shader, get_pipeline_layout(inputs))
    /\ pc' = ret
    /\ last' = [op |-> "build_ok"]
    /\ UNCHANGED <<saved, inputs, current_shader, current_shader_path, errors, show_errors,
                   mesh_config, save_json, ret, reported, cycles, events>>

\* handle_pipeline_err: BindingError::Missing is repaired and the build is
\* tried again; every other error is todo!()
handle_pipeline_err ==
    /\ pc = "recreate_pipelines"
    /\ \E e \in CreateRenderPipelineErrors(current_shader.shader,
                                           get_pipeline_layout(inputs)) :
          IF e.err = "Missing"
          THEN /\ inputs' = Uniforms_define_binding(inputs, e.group, e.binding)
               /\ reported' = reported \cup {e}
               /\ cycles' = cycles + 1
               /\ pc' = "recreate_pipelines"
               /\ last' = [op |-> "define_binding", err |-> e, again |-> e \in reported]
          ELSE /\ Abort("handle_pipeline_err", e)
               /\ UNCHANGED <<inputs, reported, cycles>>
    /\ UNCHANGED <<saved, current_shader, current_shader_path, pipelines, errors, show_errors,
                   mesh_config, save_json, ret, events>>

(***************************************************************************)
(* refresh_shader: the file is read when the handler runs.                 *)
(***************************************************************************)
NoFile == [id |-> "nofile"]

\* destroy_errors that only closes the window and keeps the text
destroy_errors_hide == [errors |-> errors, show_errors |-> FALSE]

\* ImState::destroy_errors
destroy_errors == [errors |-> <<>>, show_errors |-> FALSE]

\* ImState::show_crate_shader_err
show_crate_shader_err(err) == [errors |-> <<err>>, show_errors |-> TRUE]

\* refresh_shader that falls back to the dummy pipeline when the source does
\* not compile, the way State::new falls back to the dummy module
refresh_shader_fallback ==
    /\ pc = "refresh_shader"
    /\ \E file \in ShaderFiles \cup {NoFile} :
          /\ last' = [op |-> "refresh_shader", file |-> file, before |-> errors]
          /\ IF file = NoFile
             THEN /\ pc' = ret
                  /\ UNCHANGED <<errors, show_errors, current_shader, reported, cycles,
                                 pipelines>>
             ELSE IF file.compiles
             THEN /\ errors' = destroy_errors.errors
                  /\ show_errors' = destroy_errors.show_errors
                  /\ current_shader' = [contents |-> file.id, shader |-> file]
                  /\ pc' = "recreate_pipelines"
                  /\ reported' = {}
                  /\ cycles' = 0
                  /\ UNCHANGED pipelines
             ELSE /\ show_errors' = show_crate_shader_err(CompileErrorText(file)).show_errors
                  /\ errors' = show_crate_shader_err(CompileErrorText(file)).errors
                  /\ pipelines' = dummy_pipeline
                  /\ pc' = ret
                  /\ UNCHANGED <<current_shader, reported, cycles>>
    /\ UNCHANGED <<saved, inputs, current_shader_path, mesh_config, save_json, ret, events>>

refresh_shader ==
    /\ pc = "refresh_shader"
    /\ \E file \in ShaderFiles \cup {NoFile} :
          /\ last' = [op |-> "refresh_shader", file |-> file, before |-> errors]
          /\ IF file = NoFile
             THEN /\ pc' = ret
                  /\ UNCHANGED <<errors, show_errors, current_shader, reported, cycles>>
             ELSE IF file.compiles
             THEN /\ errors' = destroy_errors.errors
                  /\ show_errors' = destroy_errors.show_errors
                  /\ current_shader' = [contents |-> file.id, shader |-> file]
                  /\ pc' = "recreate_pipelines"
                  /\ reported' = {}
                  /\ cycles' = 0
             ELSE /\ show_errors' = show_crate_shader_err(CompileErrorText(file)).show_errors
                  /\ errors' = show_crate_shader_err(CompileErrorText(file)).errors
                  /\ pc' = ret
                  /\ UNCHANGED <<current_shader, reported, cycles>>
    /\ UNCHANGED <<saved, inputs, current_shader_path, pipelines, mesh_config, save_json, ret,
                   events>>

\* KeyQ pressed
KeyQ ==
    /\ pc = "idle"
    /\ events < MaxEvents
    /\ events' = events + 1
    /\ pc' = "refresh_shader"
    /\ ret' = "idle"
    /\ last' = [op |-> "KeyQ"]
    /\ UNCHANGED <<saved, inputs, current_shader, current_shader_path, pipelines, errors,
                   show_errors, mesh_config, save_json, reported, cycles>>

(***************************************************************************)
(* A frame: RedrawRequested, the two draws and the UI between them.        *)
(***************************************************************************)
RedrawRequested ==
    /\ pc = "idle"
    /\ \E elapsed_time \in 0..MaxTime :
          IF Uniforms_update_time_panics(inputs)
          THEN Abort("update_time", elapsed_time) /\ UNCHANGED inputs
          ELSE /\ inputs' = Uniforms_update_time(inputs, elapsed_time)
               /\ pc' = "draw1"
               /\ last' = [op |-> "update_time", elapsed_time |-> elapsed_time]
    /\ UNCHANGED <<saved, current_shader, current_shader_path, pipelines, errors, show_errors,
                   mesh_config, save_json, ret, reported, cycles, events>>

AfterDraw(stage) == IF stage = "draw1" THEN "ui" ELSE "idle"

\* draw_image, handle_render_pass_err and the handling of its message
draw_image ==
    /\ pc \in {"draw1", "draw2"}
    /\ LET res == DrawResult(pipelines, inputs)
       IN  CASE res.err = "Ok" ->
                  /\ pc' = AfterDraw(pc)
                  /\ last' = [op |-> "draw", res |-> res]
                  /\ UNCHANGED <<inputs, ret, reported, cycles>>
             [] res.err = "BindingSizeTooSmall" ->
                  IF Uniforms_change_binding_size_panics(inputs, res.group_index,
                                                         res.compact_index, res.shader_size)
                  THEN /\ Abort("change_binding_size", res)
                       /\ UNCHANGED <<inputs, ret, reported, cycles>>
                  ELSE /\ inputs' = Uniforms_change_binding_size(inputs, res.group_index,
                                        res.compact_index, res.shader_size)
                       /\ StartRebuild(AfterDraw(pc))
                       /\ cycles' = cycles + 1
                       /\ last' = [op |-> "change_binding_size", res |-> res]
             [] OTHER ->
                  /\ Abort("handle_render_pass_err", res)
                  /\ UNCHANGED <<inputs, ret, reported, cycles>>
    /\ UNCHANGED <<saved, current_shader, current_shader_path, pipelines, errors, show_errors,
                   mesh_config, save_json, events>>

(***************************************************************************)
(* create_ui: the widgets, the edit event dispatch and the message.  One   *)
(* widget is operated per frame.                                           *)
(***************************************************************************)
\* entry of show_primitive_selector's TYPES list a value is shown under
TypeIndex(v) ==
    CASE v.k = "Scalar" -> (CASE v.t = "U32" -> 0 [] v.t = "I32" -> 1 [] OTHER -> 2)
      [] v.k = "Vector" -> Len(v.v) + 1
      [] v.k = "Matrix" -> 6
      [] OTHER -> 7

TYPES ==
    <<ScalarT("U32"), ScalarT("I32"), ScalarT("F32"), VecT(2, "F32"), VecT(3, "F32"),
      VecT(4, "F32"), MatrixT(<<4, 4>>), TransformT>>

\* the number typed into an input widget
EditValue == 25
BindingNames == {"speed"}

\* the value after its first component was edited in place
Edited(v) ==
    CASE v.k = "Scalar" -> [v EXCEPT !.v[1] = EditValue]
      [] v.k = "Vector" -> [v EXCEPT !.v[1] = EditValue]
      [] v.k = "Matrix" -> [v EXCEPT !.cols[1][1] = EditValue]
      [] OTHER -> [v EXCEPT !.translation[1] = EditValue]

Locations(u) ==
    {<<g, b>> \in (0..(Len(u.groups) - 1)) \X (0..(MaxBindings + 2)) : InRange(u, g, b)}

\* the edit events the editors of the current set can emit
UniformEditEvents(u) ==
    {[ev |-> "AddBindGroup"] : x \in {1} \cap {IF Len(u.groups) < MaxGroups THEN 1 ELSE 0}}
    \cup {[ev |-> "AddUniform", g_index |-> g] :
            g \in {g \in 0..(Len(u.groups) - 1) :
                      Len(u.groups[g + 1].bindings) < MaxBindings}}
    \cup UNION {
          LET v == BindingAt(u, l[1], l[2]).value
              at(ev) == [ev |-> ev, g_index |-> l[1], b_index |-> l[2]]
          IN  IF IsBuiltIn(v) THEN {}
              ELSE {at("UpdateBuffer")}
                   \cup {[ev |-> "ChangeType", unitype |-> TYPES[i], g_index |-> l[1],
                          b_index |-> l[2]] : i \in (1..Len(TYPES)) \ {TypeIndex(v) + 1}}
                   \cup (IF v.k = "Scalar" THEN {at("Increase"), at("Decrease")} ELSE {})
                   \cup (IF v.k = "Vector"
                         THEN {[ev |-> "ChangeInnerType", inner_type |-> t,
                                g_index |-> l[1], b_index |-> l[2]] :
                                  t \in ScalarType \ {v.t}}
                         ELSE {})
                   \cup (IF v.k = "Matrix"
                         THEN {[ev |-> "ChangeMatrixSize", matrix_size |-> m,
                                g_index |-> l[1], b_index |-> l[2]] :
                                  m \in MatrixType \ {v.m}}
                         ELSE {})
          : l \in Locations(u)}

\* does the dispatched event panic
EditPanics(u, e) ==
    CASE e.ev = "ChangeType" ->
            cast_to_panics(BindingAt(u, e.g_index, e.b_index).value, e.unitype)
      [] e.ev = "Increase" -> arith_overflows(BindingAt(u, e.g_index, e.b_index).value, 1)
      [] e.ev = "Decrease" -> arith_overflows(BindingAt(u, e.g_index, e.b_index).value, -1)
      [] e.ev = "ChangeMatrixSize" ->
            Uniforms_change_matrix_size_panics(u, e.matrix_size, e.g_index, e.b_index)
      [] OTHER -> FALSE

\* the dispatch of create_ui's edit event
Dispatch(u, e) ==
    CASE e.ev = "UpdateBuffer" ->
            Uniforms_update_buffer(
                [u EXCEPT !.groups[e.g_index + 1].bindings[e.b_index + 1].value = Edited(@)],
                e.g_index, e.b_index)
      [] e.ev = "AddUniform" -> Uniforms_add_f32(u, e.g_index)
      [] e.ev = "AddBindGroup" -> Uniforms_add_bind_group(u)
      [] e.ev = "ChangeType" ->
            (IF EditPanics(u, e) THEN u
             ELSE Uniforms_change_type(u, e.unitype, e.g_index, e.b_index))
      [] e.ev = "Increase" ->
            (IF EditPanics(u, e) THEN u ELSE Uniforms_increase(u, e.g_index, e.b_index))
      [] e.ev = "Decrease" ->
            (IF EditPanics(u, e) THEN u ELSE Uniforms_decrease(u, e.g_index, e.b_index))
      [] e.ev = "ChangeInnerType" ->
            Uniforms_change_inner_type(u, e.inner_type, e.g_index, e.b_index)
      [] OTHER -> Uniforms_change_matrix_size(u, e.matrix_size, e.g_index, e.b_index)

\* whether the dispatched event panics: an overflow panics or wraps with the
\* build, every other event has one outcome
EditOutcomes(u, e) ==
    IF e.ev \in {"Increase", "Decrease"} /\ EditPanics(u, e)
    THEN BOOLEAN
    ELSE {EditPanics(u, e)}

\* the dispatch of an Increase or Decrease whose overflow wrapped
DispatchWrapped(u, e) ==
    IF e.ev = "Increase"
    THEN Uniforms_increase(u, e.g_index, e.b_index)
    ELSE Uniforms_decrease(u, e.g_index, e.b_index)

\* an editor emitted an edit event: it is dispatched and the message is
\* ReloadPipeline
UiEdit ==
    /\ pc = "ui"
    /\ events < MaxEvents
    /\ \E e \in UniformEditEvents(inputs) :
          \E panics \in EditOutcomes(inputs, e) :
              /\ inputs' = IF panics = EditPanics(inputs, e)
                            THEN Dispatch(inputs, e)
                            ELSE DispatchWrapped(inputs, e)
              /\ IF panics
                 THEN Abort(e.ev, e) /\ UNCHANGED <<ret, reported>>
                 ELSE StartRebuild("draw2") /\ last' = [op |-> "edit", event |-> e]
    /\ events' = events + 1
    /\ show_errors' = FALSE
    /\ UNCHANGED <<saved, current_shader, current_shader_path, pipelines, errors, mesh_config,
                   save_json, cycles>>

\* a name was typed into a binding's name field: no event, no message
UiRename ==
    /\ pc = "ui"
    /\ events < MaxEvents
    /\ \E l \in Locations(inputs), name \in BindingNames :
          /\ BindingAt(inputs, l[1], l[2]).name # name
          /\ inputs' = [inputs EXCEPT !.groups[l[1] + 1] =
                            UniformGroup_set_name(@, l[2], name)]
          /\ last' = [op |-> "rename", g_index |-> l[1], b_index |-> l[2]]
    /\ events' = events + 1
    /\ show_errors' = FALSE
    /\ pc' = "draw2"
    /\ UNCHANGED <<saved, current_shader, current_shader_path, pipelines, errors, mesh_config,
                   save_json, ret, reported, cycles>>

\* no widget was operated
UiNone ==
    /\ pc = "ui"
    /\ show_errors' = FALSE
    /\ pc' = "draw2"
    /\ last' = [op |-> "ui"]
    /\ UNCHANGED <<saved, inputs, current_shader, current_shader_path, pipelines, errors,
                   mesh_config, save_json, ret, reported, cycles, events>>

\* "Show mesh": the message is ReloadPipeline
UiShowMesh ==
    /\ pc = "ui"
    /\ show_errors' = FALSE
    /\ StartRebuild("draw2")
    /\ last' = [op |-> "ReloadPipeline"]
    /\ UNCHANGED <<saved, inputs, current_shader, current_shader_path, pipelines, errors,
                   mesh_config, save_json, cycles, events>>

\* "Reload shader"
UiReloadShader ==
    /\ pc = "ui"
    /\ events < MaxEvents
    /\ events' = events + 1
    /\ show_errors' = FALSE
    /\ pc' = "refresh_shader"
    /\ ret' = "draw2"
    /\ last' = [op |-> "ReloadShader"]
    /\ UNCHANGED <<saved, inputs, current_shader, current_shader_path, pipelines, errors,
                   mesh_config, save_json, reported, cycles>>

\* "Load": load_uniforms and the new path, then refresh_shader
UiLoadShader ==
    /\ pc = "ui"
    /\ events < MaxEvents
    /\ \E shader \in ShaderNames :
          /\ inputs' = load_uniforms(inputs, save_json, shader)
          /\ current_shader_path' = shader
          /\ last' = [op |-> "LoadShader", shader |-> shader, file |-> save_json,
                      before |-> inputs,
                      loaded |-> Uniforms_load(save_json.value, shader,
                                               UsedIds(inputs)).some]
    /\ events' = events + 1
    /\ show_errors' = FALSE
    /\ pc' = "refresh_shader"
    /\ ret' = "draw2"
    /\ UNCHANGED <<saved, current_shader, pipelines, errors, mesh_config, save_json, reported,
                   cycles>>

\* "Save parameters"
UiSaveParameters ==
    /\ pc = "ui"
    /\ events < MaxEvents
    /\ events' = events + 1
    /\ save_json' = Uniforms_save(inputs, current_shader_path, save_json)
    /\ saved' = [saved EXCEPT ![current_shader_path] = Some(inputs)]
    /\ show_errors' = FALSE
    /\ pc' = "draw2"
    /\ last' = [op |-> "SaveParameters", saved |-> inputs]
    /\ UNCHANGED <<inputs, current_shader, current_shader_path, pipelines, errors,
                   mesh_config, ret, reported, cycles>>

MeshConfigs == {"Screen2D", "Plane"}

\* a mesh radio button: ReloadMeshBuffers -> auto_enable_camera
UiMesh ==
    /\ pc = "ui"
    /\ \E cfg \in MeshConfigs :
          /\ mesh_config' = cfg
          /\ IF Uniforms_enable_camera_panics(inputs)
             THEN Abort("enable_camera", cfg) /\ UNCHANGED inputs
             ELSE /\ inputs' = Uniforms_enable_camera(inputs, cfg # "Screen2D")
                  /\ pc' = "draw2"
                  /\ last' = [op |-> "ReloadMeshBuffers", cfg |-> cfg]
    /\ show_errors' = FALSE
    /\ UNCHANGED <<saved, current_shader, current_shader_path, pipelines, errors, save_json,
                   ret, reported, cycles, events>>

Next ==
    \/ BuildOk
    \/ handle_pipeline_err
    \/ refresh_shader
    \/ KeyQ
    \/ RedrawRequested
    \/ draw_image
    \/ UiEdit
    \/ UiRename
    \/ UiNone
    \/ UiShowMesh
    \/ UiReloadShader
    \/ UiLoadShader
    \/ UiSaveParameters
    \/ UiMesh

Spec == Init /\ [][Next]_vars

TypeOK ==
    /\ pc \in {"recreate_pipelines", "refresh_shader", "idle", "draw1", "ui", "draw2",
               "aborted"}
    /\ events <= MaxEvents


(***************************************************************************)
(* Properties.                                                             *)
(***************************************************************************)
Running == pc # "aborted"

SizeMatches(b) == b.buffer.size = ByteLen(b.value)

\* C1: while the application runs, every binding's buffer has exactly the
\* byte length of the encoding of the binding's current value, whatever
\* binding operations were applied.
C1_BufferSizeIsEncodedLength ==
    Running => \A l \in Locations(inputs) : SizeMatches(BindingAt(inputs, l[1], l[2]))


(***************************************************************************)
(* Persistence on its own: BindingSets the editor can build, and save.json *)
(* files the application can find on disk.                                 *)
(***************************************************************************)
\* the set after a binding with this value and name was added to group g
\* (AddUniform, ChangeType, typed values and a typed name)
WithBinding(u, g_index, value, name) ==
    [u EXCEPT !.groups[g_index + 1] =
        UniformGroup_set_name(UniformGroup_add_custom(@, value, Fresh(UsedIds(u))),
                              Len(@.bindings), name)]

SampleSets ==
    LET d == Uniforms_new({})
    IN  { d,
          WithBinding(WithBinding(d, 0, Scalar("F32", 25), "speed"), 0,
                      Vector("F32", <<10, 20, 30>>), "color"),
          WithBinding(d, 0, Vector("F32", <<10, 20, 30>>), "color"),
          WithBinding(d, 1, Vector("I32", <<-1, 2, 3, 4>>), "offset"),
          WithBinding(d, 0, ZeroMatrix(<<2, 2>>), "m"),
          WithBinding(d, 1, TransformDefault, "model") }

\* the text of a value in the form from_json reads
ReadableValue(v) ==
    CASE v.k = "Scalar" ->
            JObj(("value" :> JComponent(v.t, v.v[1])) @@ UniformValue_to_json(v).o)
      [] v.k = "Matrix" ->
            JObj(("innertype" :> JStr(MatrixReadTag(v.m))) @@ UniformValue_to_json(v).o)
      [] OTHER -> UniformValue_to_json(v)

Entry(name, v) == JObj(("name" :> JStr(name)) @@ ("value" :> ReadableValue(v)))

Conf(tul, cul, groups) ==
    JObj(("time_uniform_location" :> Location_to_json(tul))
         @@ ("camera_uniform_location" :> Location_to_json(cul))
         @@ ("groups" :> JArr([g \in 1..Len(groups) |-> JArr(groups[g])])))

TimeEntry == Entry("time", Time)
CameraEntry == Entry("camera", Camera(FALSE))
SpeedEntry == Entry("speed", Scalar("F32", 25))
CountEntry == Entry("count", Vector("U32", <<1, 2>>))
MatEntry == Entry("m", ZeroMatrix(<<2, 2>>))

\* well-formed records holding one Time and one Camera
GoodConfs ==
    { Conf(<<0, 0>>, <<1, 0>>, <<<<TimeEntry, SpeedEntry>>, <<CameraEntry, CountEntry>>>>),
      Conf(<<0, 0>>, <<1, 0>>, <<<<TimeEntry, MatEntry>>, <<CameraEntry>>>>),
      Conf(<<0, 1>>, <<0, 2>>, <<<<SpeedEntry, TimeEntry, CameraEntry>>>>) }

\* well-formed records whose builtin counts are not one and one
MiscountedConfs ==
    { Conf(<<0, 0>>, <<1, 0>>, <<<<SpeedEntry>>, <<CameraEntry>>>>),
      Conf(<<0, 0>>, <<1, 0>>, <<<<TimeEntry>>, <<CountEntry>>>>),
      Conf(<<0, 0>>, <<1, 0>>, <<<<TimeEntry, TimeEntry>>, <<CameraEntry>>>>),
      Conf(<<0, 0>>, <<1, 0>>, <<<<TimeEntry>>, <<CameraEntry, CameraEntry>>>>),
      Conf(<<0, 0>>, <<1, 0>>, <<<<SpeedEntry>>, <<CountEntry>>>>) }

\* a value of the wrong type for every field: a number is no string, array
\* or object, and a string is no number
WrongType(v) == IF v.j = "num" THEN JStr("x") ELSE JNum("pos", 7)

\* the records that differ from j in one place: one field of an object
\* missing, or one value replaced by a value of the wrong type
RECURSIVE Damaged(_)
Damaged(j) ==
    CASE j.j = "obj" ->
            {JObj([k \in (DOMAIN j.o) \ {key} |-> j.o[k]]) : key \in DOMAIN j.o}
            \cup UNION {{JObj([j.o EXCEPT ![key] = d]) :
                            d \in Damaged(j.o[key]) \cup {WrongType(j.o[key])}} :
                        key \in DOMAIN j.o}
      [] j.j = "arr" ->
            UNION {{JArr([j.a EXCEPT ![i] = d]) :
                      d \in Damaged(j.a[i]) \cup {WrongType(j.a[i])}} :
                   i \in 1..Len(j.a)}
      [] OTHER -> {}

DamagedConfs == UNION {Damaged(c) \cup {WrongType(c)} : c \in GoodConfs}

\* well-formed records holding one Time and one Camera, whose location
\* fields name other places: the two locations exchanged, the Time location
\* on a custom binding, and a Time location outside the groups
MislocatedConfs ==
    { Conf(<<1, 0>>, <<0, 0>>, <<<<TimeEntry, SpeedEntry>>, <<CameraEntry>>>>),
      Conf(<<0, 1>>, <<1, 0>>, <<<<TimeEntry, SpeedEntry>>, <<CameraEntry>>>>),
      Conf(<<2, 0>>, <<1, 0>>, <<<<TimeEntry, SpeedEntry>>, <<CameraEntry>>>>) }

SaveFile(conf) == File(JObj("shader.wgsl" :> conf))

PersistedFiles ==
    {File(Unreadable), File(JArr(<<>>))}
    \cup {SaveFile(c) : c \in GoodConfs \cup MiscountedConfs \cup DamagedConfs
                               \cup MislocatedConfs}

\* a running application between its first draw and the UI, with a set the
\* editor built, the plain shader active, and any save.json on disk
InitPersist ==
    \E u \in SampleSets, f \in PersistedFiles, file \in {ShaderSrc("plain", TRUE, {}, FALSE)} :
        /\ inputs = u
        /\ current_shader = [contents |-> file.id, shader |-> file]
        /\ current_shader_path = "shader.wgsl"
        /\ pipelines = Pipelines(file, get_pipeline_layout(u))
        /\ errors = <<>>
        /\ show_errors = FALSE
        /\ mesh_config = "Screen2D"
        /\ save_json = f
        /\ pc = "ui"
        /\ ret = "idle"
        /\ reported = {}
        /\ cycles = 0
        /\ events = 0
        /\ saved = [n \in ShaderNames |-> None]
        /\ last = [op |-> "draw", res |-> [err |-> "Ok"]]

NextPersist ==
    \/ UiSaveParameters
    \/ UiLoadShader
    \/ refresh_shader
    \/ BuildOk
    \/ handle_pipeline_err
    \/ RedrawRequested
    \/ draw_image
    \/ UiNone

SpecPersist == InitPersist /\ [][NextPersist]_vars

\* the rebuild on its own: the frames, the shader reloads and the edit
\* events that start it, scheduled as the code runs it (recreate_pipelines
\* and handle_pipeline_err call each other synchronously, so an attempt that
\* can be made is made)
NextRebuild ==
    \/ BuildOk
    \/ handle_pipeline_err
    \/ refresh_shader
    \/ KeyQ
    \/ RedrawRequested
    \/ draw_image
    \/ UiNone
    \/ UiEdit

FairRebuild ==
    Init /\ [][NextRebuild]_vars /\ WF_vars(BuildOk) /\ WF_vars(handle_pipeline_err)

PipelineErrors ==
    CreateRenderPipelineErrors(current_shader.shader, get_pipeline_layout(inputs))

\* a repair by handle_pipeline_err that is followed by a retry
RepairStep == pc = "recreate_pipelines" /\ last'.op = "define_binding"

\* C2: a rebuild that was started ends (in a successful build or in the
\* abort that stands for Fatal), and every repair that is followed by a
\* retry repairs an error signature the rebuild has not reported before,
\* removes it from what the next attempt can report, and leaves fewer
\* errors to report.
C2_RepairLoopTerminates ==
    /\ (pc = "recreate_pipelines") ~> (pc # "recreate_pipelines")
    /\ [][RepairStep =>
            /\ last'.err \notin reported
            /\ last'.err \notin PipelineErrors'
            /\ Cardinality(PipelineErrors') < Cardinality(PipelineErrors)]_vars

\* a rebuild that needed two repairs has ended in a successful build
C2_Witness == last.op = "build_ok" /\ Cardinality(reported) = 2


\* C3: the active pipeline changes only in a step that completes a
\* successful build, and then to the pipeline built from the current module
\* against the current set's layouts; so a repair step, a reload that does
\* not compile and a rebuild that ends in an abort leave the last
\* successfully built pipeline active.
C3_PipelineOnlyFromSuccessfulBuild ==
    [][/\ pipelines' # pipelines =>
            /\ pc = "recreate_pipelines"
            /\ PipelineErrors = {}
            /\ last'.op = "build_ok"
            /\ pipelines' = Pipelines(current_shader.shader, get_pipeline_layout(inputs))
       /\ last'.op \in {"define_binding", "panic"} => pipelines' = pipelines
       /\ (last'.op = "refresh_shader" /\ pc' = ret) => pipelines' = pipelines]_vars

\* a reload did not compile while a pipeline built earlier is active
C3_Witness ==
    /\ last.op = "refresh_shader"
    /\ errors # <<>>
    /\ pipelines # dummy_pipeline


\* what a set holds: the locations and, per group and binding, name and value
Content(u) ==
    [time_uniform_location |-> u.time_uniform_location,
     camera_uniform_location |-> u.camera_uniform_location,
     groups |-> [g \in 1..Len(u.groups) |->
                   [i \in 1..Len(u.groups[g].bindings) |->
                       [name |-> u.groups[g].bindings[i].name,
                        value |-> u.groups[g].bindings[i].value]]]]

\* the fresh default set: Time at (0,0) and Camera at (1,0), nothing else
IsFreshDefault(u) ==
    /\ Content(u) = Content(Uniforms_new({}))
    /\ \A l \in Locations(u) : SizeMatches(BindingAt(u, l[1], l[2]))

MiscountedFiles == {SaveFile(c) : c \in MiscountedConfs}
DamagedFiles == {SaveFile(c) : c \in DamagedConfs}

\* the first well-formed record with the name of "speed" missing
NamelessConf ==
    Conf(<<0, 0>>, <<1, 0>>,
         <<<<TimeEntry, JObj("value" :> ReadableValue(Scalar("F32", 25)))>>,
           <<CameraEntry, CountEntry>>>>)

\* load_uniforms has just run for one of these files, for the record stored
\* under "shader.wgsl"
Loaded(files) ==
    /\ last.op = "LoadShader"
    /\ last.shader = "shader.wgsl"
    /\ last.file \in files

\* C4: when the record that is loaded is well-formed but does not hold
\* exactly one Time and exactly one Camera builtin, the load is rejected and
\* the installed set is the fresh default set, Time at (0,0) and Camera at
\* (1,0).
C4_MiscountedBuiltinsRejected ==
    Loaded(MiscountedFiles) => ~last.loaded /\ IsFreshDefault(inputs) /\ Running

\* a record with two Time builtins was loaded over a set with a user binding
C4_Witness ==
    /\ Loaded({SaveFile(Conf(<<0, 0>>, <<1, 0>>,
                              <<<<TimeEntry, TimeEntry>>, <<CameraEntry>>>>))})
    /\ ~IsFreshDefault(last.before)
    /\ IsFreshDefault(inputs)

\* C5: when the record that is loaded has one required field missing or of
\* the wrong type (a location, the groups, a group, a binding's name or
\* value, an outer or inner tag, a payload item), the load fails as a whole,
\* the application keeps running, and the installed set is the fresh
\* default set and never a part of the record.
C5_DamagedRecordRejected ==
    Loaded(DamagedFiles) => ~last.loaded /\ IsFreshDefault(inputs) /\ Running

\* a record with the name of one binding missing was loaded over a set with
\* a user binding
C5_Witness ==
    /\ Loaded(DamagedFiles \cap {SaveFile(NamelessConf)})
    /\ ~IsFreshDefault(last.before)
    /\ IsFreshDefault(inputs)

\* C6: a set that was saved under a shader name and is then loaded under
\* that name comes back with the same Time and Camera locations and the
\* same name, outer type, inner type and payload for every binding.
C6_SaveLoadRoundTrip ==
    (last.op = "LoadShader" /\ saved[last.shader].some)
        => Content(inputs) = Content(saved[last.shader].v)


\* the sizes of the resize table, and the shape each one stands for
TableSizes == {4, 8, 12, 16, 24, 32, 36, 48, 64}

TableVariant(n, v) ==
    CASE n = 4 -> v.k = "Scalar" /\ v.t = "F32"
      [] n \in {8, 12, 16} -> v.k = "Vector" /\ 4 * Len(v.v) = n
      [] n = 24 -> v.k = "Matrix" /\ v.m = <<2, 3>>
      [] n = 32 -> v.k = "Matrix" /\ v.m = <<2, 4>>
      [] n = 36 -> v.k = "Matrix" /\ v.m = <<3, 3>>
      [] n = 48 -> v.k = "Matrix" /\ v.m = <<3, 4>>
      [] n = 64 -> v.k = "Matrix" /\ v.m = <<4, 4>>
      [] OTHER -> FALSE

\* the draw that is about to run reports this error
DrawError == IF pc \in {"draw1", "draw2"} THEN DrawResult(pipelines, inputs)
             ELSE [err |-> "Ok"]

\* C7: when a draw reports an undersized binding whose required size is in
\* the resize table, the repair runs to its end, the binding at that group
\* and index then has the variant the table gives for the size, and its
\* encoded length and its buffer size are both the required size.
C7_SizeRepairFollowsTable ==
    [][(DrawError.err = "BindingSizeTooSmall" /\ DrawError.shader_size \in TableSizes) =>
          LET e == DrawError
              b == BindingAt(inputs', e.group_index, e.compact_index)
          IN  /\ pc' # "aborted"
              /\ TableVariant(e.shader_size, b.value)
              /\ ByteLen(b.value) = e.shader_size
              /\ b.buffer.size = e.shader_size]_vars


\* an error for which no repair is defined
Unrepairable(e) ==
    /\ e.err \notin {"Ok", "Missing"}
    /\ e.err = "BindingSizeTooSmall" => e.shader_size \notin TableSizes

\* C8: when the build attempt or the draw that is about to run reports an
\* error with no defined repair, the step that handles it leaves the
\* application running, leaves the set and the active pipeline as they
\* were, and stores the error as text.
C8_UnrepairableIsFatalOnly ==
    [][((pc = "recreate_pipelines" /\ \E e \in PipelineErrors : Unrepairable(e))
        \/ Unrepairable(DrawError)) =>
          /\ pc' # "aborted"
          /\ inputs' = inputs
          /\ pipelines' = pipelines
          /\ errors' # <<>>]_vars


\* the application was started on the shader that declares (0,2) of 4 bytes
\* and (1,0) of 16 bytes, and no input event has been taken since
C9_Start == events = 0 /\ current_shader.contents = "two"

\* the active pipeline is the one built from the current module against the
\* current set, and a draw with it reports no error
C9_Stable ==
    /\ pc \notin {"recreate_pipelines", "aborted"}
    /\ pipelines = Pipelines(current_shader.shader, get_pipeline_layout(inputs))
    /\ DrawResult(pipelines, inputs).err = "Ok"

Values(g) == [i \in 1..Len(g.bindings) |-> g.bindings[i].value]

\* C9: started from the fresh default set on the shader declaring (0,2) of
\* 4 bytes and (1,0) of 16 bytes, the rebuild reaches Stable after one
\* repair cycle (so within two); the set then holds Time, a back-filled f32
\* and the f32 defined at (0,2) in group 0 and the Camera in group 1, and
\* both declared locations are bound to a buffer of at least the declared
\* size: 4 bytes at (0,2), the Camera's 272 bytes at (1,0).
C9_ConvergesFromDefault ==
    /\ (C9_Start /\ pc = "recreate_pipelines") ~> (C9_Start /\ C9_Stable)
    /\ [](C9_Start => cycles <= 2 /\ Running)
    /\ []((C9_Start /\ C9_Stable) =>
            /\ cycles = 1
            /\ Len(inputs.groups) = 2
            /\ Values(inputs.groups[1]) = <<Time, DEFAULT_UNIFORM, DEFAULT_UNIFORM>>
            /\ Len(inputs.groups[2].bindings) = 1
            /\ IsCamera(BindingAt(inputs, 1, 0).value)
            /\ BindingAt(inputs, 0, 2).buffer.size = 4
            /\ BindingAt(inputs, 1, 0).buffer.size = 272
            /\ \A l \in Locations(inputs) : SizeMatches(BindingAt(inputs, l[1], l[2])))

\* a draw with the pipeline built for that shader has succeeded
C9_Witness ==
    /\ C9_Start
    /\ C9_Stable
    /\ last.op = "draw"
    /\ last.res.err = "Ok"
    /\ pipelines.custom_shader = "two"

\* C9 as the spec states it: once Stable, exactly the two declared bindings
\* are present, with the declared sizes.
C9_ExactlyTheDeclaredBindings ==
    (C9_Start /\ C9_Stable) =>
        /\ Locations(inputs) = {<<0, 2>>, <<1, 0>>}
        /\ BindingAt(inputs, 0, 2).buffer.size = 4
        /\ BindingAt(inputs, 1, 0).buffer.size = 16


\* C10: a reload whose source does not compile stores the error text, shows
\* it, and leaves the module and source, the active pipeline and the set as
\* they were, with the application running; a reload whose source compiles
\* leaves no error text.
C10_FailedReloadOnlyStoresError ==
    [][(pc = "refresh_shader" /\ last'.op = "refresh_shader" /\ last'.file # NoFile) =>
          IF last'.file.compiles
          THEN errors' = <<>>
          ELSE /\ errors' = <<CompileErrorText(last'.file)>>
               /\ show_errors'
               /\ UNCHANGED <<current_shader, pipelines, inputs>>
               /\ pc' = ret]_vars

\* a reload that compiled has cleared the text a failed reload had stored,
\* with a pipeline built before the failed reload still in place
C10_Witness ==
    /\ last.op = "refresh_shader"
    /\ last.file # NoFile
    /\ last.file.compiles
    /\ last.before # <<>>
    /\ errors = <<>>
    /\ pipelines # dummy_pipeline



(***************************************************************************)
(* The value functions on their own: cast_to and to_le_bytes applied to    *)
(* values of every variant, inner type and shape.                          *)
(***************************************************************************)
\* numbers of each scalar type: zero, small, negative, above i32::MAX and
\* above u32::MAX
SampleNums(t) ==
    CASE t = "U32" -> {0, 3, I32_MAX + 9, U32_MAX}
      [] t = "I32" -> {I32_MIN, -4, 0, 5, I32_MAX}
      [] OTHER -> {-(U32_MAX + 7) * 10, -25, 0, 15, (I32_MAX + 9) * 10,
                   (U32_MAX + 7) * 10}

VecNums(t) ==
    CASE t = "U32" -> {0, 3, I32_MAX + 9}
      [] t = "I32" -> {-4, 0, 5}
      [] OTHER -> {-25, 15, (U32_MAX + 7) * 10}

SampleMatrices ==
    {ZeroMatrix(m) : m \in MatrixType}
    \cup {Matrix(m, [c \in 1..m[1] |-> [r \in 1..m[2] |-> 10 * (4 * c + r)]]) :
            m \in MatrixType}

SampleTransforms ==
    {Transform(tr, sc, rot) :
        tr \in {<<0, 0, 0>>, <<10, 20, 30>>},
        sc \in {<<10, 10, 10>>, <<20, 30, 40>>},
        rot \in {<<0, 0, 0, 0>>, <<10, 0, 0, 0>>, <<0, 10, 0, 0>>}}

SampleValues ==
    UNION {{Scalar(t, x) : x \in SampleNums(t)} : t \in ScalarType}
    \cup UNION {UNION {{Vector(t, xs) : xs \in [1..n -> VecNums(t)]} : n \in 2..4} :
                t \in ScalarType}
    \cup SampleMatrices
    \cup SampleTransforms
    \cup {Time, Camera(FALSE), Camera(TRUE)}

\* a value the editor holds, before anything is done with it
InitValues ==
    \E v \in SampleValues :
        /\ inputs = Uniforms_new({})
        /\ current_shader = [contents |-> dummy_shader.id, shader |-> dummy_shader]
        /\ current_shader_path = "shader.wgsl"
        /\ pipelines = dummy_pipeline
        /\ errors = <<>>
        /\ show_errors = FALSE
        /\ mesh_config = "Screen2D"
        /\ save_json = File(Unreadable)
        /\ pc = "value"
        /\ ret = "idle"
        /\ reported = {}
        /\ cycles = 0
        /\ events = 0
        /\ saved = [n \in ShaderNames |-> None]
        /\ last = [op |-> "value", v |-> v]

\* UniformValue::cast_to: the cast value replaces the value (the panic of a
\* BuiltIn, or of a Transform cast to Transform, ends the program); `origin`
\* is the scalar the previous cast started from
ApplyCast ==
    /\ pc = "value"
    /\ \E ty \in UniformType :
          IF cast_to_panics(last.v, ty)
          THEN /\ pc' = "aborted"
               /\ last' = [op |-> "panic", from |-> last.v, ty |-> ty]
          ELSE /\ pc' = pc
               /\ last' = [op |-> "cast_to", from |-> last.v, ty |-> ty,
                           v |-> cast_to(last.v, ty),
                           origin |-> IF last.op = "cast_to" /\ last.from.k = "Scalar"
                                      THEN Some(last.from) ELSE None]
    /\ UNCHANGED <<inputs, current_shader, current_shader_path, pipelines, errors,
                   show_errors, mesh_config, save_json, ret, reported, cycles,
                   events, saved>>

\* UniformValue::to_le_bytes: the bytes written to the binding's buffer
ApplyEncode ==
    /\ pc = "value"
    /\ last' = [op |-> "to_le_bytes", v |-> last.v, bytes |-> to_le_bytes(last.v)]
    /\ UNCHANGED <<inputs, current_shader, current_shader_path, pipelines, errors,
                   show_errors, mesh_config, save_json, pc, ret, reported, cycles,
                   events, saved>>

\* UniformValue::change_inner_type: defined for a Vector, unreachable!() for
\* every other value
ApplyChangeInnerType ==
    /\ pc = "value"
    /\ \E t \in ScalarType :
          IF last.v.k # "Vector"
          THEN /\ pc' = "aborted"
               /\ last' = [op |-> "panic", from |-> last.v, inner_type |-> t]
          ELSE /\ pc' = pc
               /\ last' = [op |-> "change_inner_type", from |-> last.v,
                           inner_type |-> t,
                           v |-> VectorUniformValue_change_inner_type(last.v, t)]
    /\ UNCHANGED <<inputs, current_shader, current_shader_path, pipelines, errors,
                   show_errors, mesh_config, save_json, ret, reported, cycles,
                   events, saved>>

\* MatrixUniformValue::to_json followed by MatrixUniformValue::from_json on
\* the record it wrote: the record and what is read back from it
ApplyJson ==
    /\ pc = "value"
    /\ last.v.k = "Matrix"
    /\ LET json_obj == MatrixUniformValue_to_json(last.v, ("outer_type" :> JStr("matrix")))
       IN  last' = [op |-> "json", v |-> last.v, json |-> json_obj,
                    read |-> MatrixUniformValue_from_json(json_obj)]
    /\ UNCHANGED <<inputs, current_shader, current_shader_path, pipelines, errors,
                   show_errors, mesh_config, save_json, pc, ret, reported, cycles,
                   events, saved>>

NextValues ==
    \/ ApplyCast
    \/ ApplyEncode
    \/ ApplyChangeInnerType
    \/ ApplyJson

SpecValues == InitValues /\ [][NextValues]_vars

\* the state after a cast that returned
Cast == last.op = "cast_to"

\* the state after an encoding
Encoded == last.op = "to_le_bytes"

\* C11: a Vector of arity m cast to a vector type of arity n and any inner
\* type is a vector of arity n whose component i, for i < min(m, n), is the
\* scalar cast of the source's component i, and whose components i >= m are
\* zero
C11_VectorCastKeepsComponents ==
    (Cast /\ last.from.k = "Vector" /\ last.ty.k = "Vec") =>
        /\ last.v.k = "Vector"
        /\ last.v.t = last.ty.t
        /\ Len(last.v.v) = last.ty.n
        /\ \A i \in 1..last.ty.n :
              last.v.v[i] = IF i <= Len(last.from.v)
                            THEN cast_num(last.from.t, last.ty.t, last.from.v[i])
                            ELSE 0

\* C12: a Scalar cast to U32 falls back to 0 on every out-of-range input:
\* an I32 below 0 gives U32(0), an F32 that is negative or above the largest
\* u32 gives U32(0), and a non-negative I32 gives the same number
C12_CastToU32FallsBackToZero ==
    (Cast /\ last.from.k = "Scalar" /\ last.ty = ScalarT("U32")) =>
        LET x == last.from.v[1]
        IN  /\ last.v.k = "Scalar"
            /\ last.v.t = "U32"
            /\ (last.from.t = "I32" /\ x < 0) => last.v.v[1] = 0
            /\ (last.from.t = "I32" /\ x >= 0) => last.v.v[1] = x
            /\ (last.from.t = "F32" /\ (x < 0 \/ x > U32_MAX * 10)) => last.v.v[1] = 0

\* the vectors that differ from v in components other than the first
SameFirst(v) ==
    {Vector(v.t, xs) : xs \in {ys \in [1..Len(v.v) -> VecNums(v.t)] : ys[1] = v.v[1]}}

\* C13: a Scalar cast to a vector type of arity n and inner type t is a
\* vector whose component 0 is the scalar cast to t and whose components
\* 1..n-1 are zero; a Vector cast to scalar type t is the scalar cast of its
\* component 0 to t, whatever its other components are
C13_ScalarVectorCasts ==
    /\ (Cast /\ last.from.k = "Scalar" /\ last.ty.k = "Vec") =>
          /\ last.v.k = "Vector"
          /\ last.v.t = last.ty.t
          /\ Len(last.v.v) = last.ty.n
          /\ Scalar(last.ty.t, last.v.v[1]) = cast_to(last.from, ScalarT(last.ty.t))
          /\ \A i \in 2..last.ty.n : last.v.v[i] = 0
    /\ (Cast /\ last.from.k = "Vector" /\ last.ty.k = "Scalar") =>
          /\ last.v = cast_to(Scalar(last.from.t, last.from.v[1]), last.ty)
          /\ \A w \in SameFirst(last.from) : cast_to(w, last.ty) = last.v

\* the scalar F32(1.5) was cast to a Vec3 of I32 and gave (1, 0, 0)
C13_Witness ==
    /\ Cast
    /\ last.from = Scalar("F32", 15)
    /\ last.ty = VecT(3, "I32")
    /\ last.v.v = <<1, 0, 0>>

\* the rotation matrix that leaves every vector where it is
IdentityMatrix3 == <<<<10, 0, 0>>, <<0, 10, 0>>, <<0, 0, 10>>>>

Bytes(words) == 4 * Len(words)

\* C15: the encoded length of a value depends on its variant and subtype
\* alone: a Scalar of any inner type is 4 bytes, a Vec2 8, a Vec3 12 and a
\* Vec4 16 for every inner type, a 4x4 Matrix 64, the Time builtin 4
C15_EncodedLengths ==
    Encoded =>
        /\ last.v.k = "Scalar" => Bytes(last.bytes) = 4
        /\ (last.v.k = "Vector" /\ Len(last.v.v) = 2) => Bytes(last.bytes) = 8
        /\ (last.v.k = "Vector" /\ Len(last.v.v) = 3) => Bytes(last.bytes) = 12
        /\ (last.v.k = "Vector" /\ Len(last.v.v) = 4) => Bytes(last.bytes) = 16
        /\ (last.v.k = "Matrix" /\ last.v.m = <<4, 4>>) => Bytes(last.bytes) = 64
        /\ last.v = Time => Bytes(last.bytes) = 4

\* a Vec3 of I32 with a negative component was encoded in 12 bytes
C15_Witness ==
    /\ Encoded
    /\ last.v = Vector("I32", <<-4, 5, 0>>)
    /\ Bytes(last.bytes) = 12

\* C16: every Transform encodes to exactly 64 bytes, the 16 f32 entries of
\* the 4x4 matrix resolved from its translation, rotation and scale, all four
\* columns included
C16_TransformEncodesWholeMatrix ==
    (Encoded /\ last.v.k = "Transform") =>
        /\ Bytes(last.bytes) = 64
        /\ Len(last.bytes) = 16

\* C17: the Camera builtin encodes as five blocks in the order position (a
\* vec4: three f32 and 4 bytes of padding), view matrix, projection matrix,
\* inverse-view matrix, inverse-projection matrix; the order and the total
\* length are the same for an enabled and a disabled camera
C17_CameraBlockOrder ==
    (Encoded /\ IsCamera(last.v)) =>
        /\ [i \in 1..Len(last.bytes) |-> last.bytes[i].w] =
              [i \in 1..4 |-> "position"]
              \o [i \in 1..16 |-> "view"]
              \o [i \in 1..16 |-> "projection"]
              \o [i \in 1..16 |-> "inverse_view"]
              \o [i \in 1..16 |-> "inverse_projection"]
        /\ \A en \in BOOLEAN :
              /\ Len(to_le_bytes(Camera(en))) = Len(last.bytes)
              /\ \A i \in 1..Len(last.bytes) :
                    to_le_bytes(Camera(en))[i].w = last.bytes[i].w

\* the size of one column of r f32 values, rounded up to a multiple of 16
AlignedColumn(r) == 16 * ((4 * r + 15) \div 16)

\* C18: a Matrix of shape CxR encodes to C times the size of a column of R
\* f32 values rounded up to a 16-byte-aligned column, each column followed by
\* the padding its alignment requires
C18_MatrixColumnsAligned ==
    (Encoded /\ last.v.k = "Matrix") =>
        Bytes(last.bytes) = last.v.m[1] * AlignedColumn(last.v.m[2])

(***************************************************************************)
(* define_binding on its own: applied to BindingSets the editor can build, *)
(* at every location the bounds allow.                                     *)
(***************************************************************************)
InitDefine ==
    \E u \in SampleSets :
        /\ inputs = u
        /\ current_shader = [contents |-> dummy_shader.id, shader |-> dummy_shader]
        /\ current_shader_path = "shader.wgsl"
        /\ pipelines = dummy_pipeline
        /\ errors = <<>>
        /\ show_errors = FALSE
        /\ mesh_config = "Screen2D"
        /\ save_json = File(Unreadable)
        /\ pc = "define"
        /\ ret = "idle"
        /\ reported = {}
        /\ cycles = 0
        /\ events = 0
        /\ saved = [n \in ShaderNames |-> None]
        /\ last = [op |-> "new"]

\* Uniforms::define_binding(group, binding), called MaxEvents times at most;
\* `twice` holds the set as it was before the previous call when that call
\* had the same arguments
ApplyDefineBinding ==
    /\ pc = "define"
    /\ events < MaxEvents
    /\ events' = events + 1
    /\ \E group \in 0..MaxGroups, binding \in 0..(MaxBindings - 1) :
          /\ inputs' = Uniforms_define_binding(inputs, group, binding)
          /\ last' = [op |-> "define_binding", group |-> group, binding |-> binding,
                      before |-> inputs,
                      twice |-> IF /\ last.op = "define_binding"
                                   /\ last.group = group
                                   /\ last.binding = binding
                                THEN Some(last.before) ELSE None]
    /\ UNCHANGED <<current_shader, current_shader_path, pipelines, errors,
                   show_errors, mesh_config, save_json, pc, ret, reported, cycles,
                   saved>>

NextDefine == ApplyDefineBinding

SpecDefine == InitDefine /\ [][NextDefine]_vars

Defined == last.op = "define_binding"

\* the names and values of a group's bindings, in order
Listing(g) ==
    [i \in 1..Len(g.bindings) |->
        [name |-> g.bindings[i].name, value |-> g.bindings[i].value]]

\* the bindings of group g of a set, none if the set has no such group
GroupListing(u, g) == IF g < Len(u.groups) THEN Listing(u.groups[g + 1]) ELSE <<>>

\* C19: define_binding(N) called twice on a group gives the same binding
\* list as one call (same length, same names and values in the same order),
\* and a call on a group whose length is already greater than N changes no
\* binding
C19_DefineBindingIdempotent ==
    Defined =>
        /\ last.twice.some =>
              Listing(inputs.groups[last.group + 1]) = GroupListing(last.before, last.group)
        /\ Len(GroupListing(last.before, last.group)) > last.binding =>
              inputs.groups[last.group + 1].bindings
                  = last.before.groups[last.group + 1].bindings

\* define_binding(2) was called twice on a group that held one binding: the
\* first call added two, the second none
C19_Witness ==
    /\ Defined
    /\ last.binding = 2
    /\ last.twice.some
    /\ Len(GroupListing(last.twice.v, last.group)) = 1
    /\ Len(inputs.groups[last.group + 1].bindings) = 3

\* C20: after Uniforms::define_binding(group, index) the set has more than
\* `group` groups, every group appended on the way is empty, group `group` is
\* longer than `index`, every binding appended to it is the default Scalar
\* F32(0.0), and every group and binding that was there before keeps its
\* position and value; from the default set, define_binding(0, 2) leaves
\* group 0 with Time, F32(0.0) and F32(0.0)
C20_DefineBindingBackFills ==
    Defined =>
        LET before == last.before
            old_groups == Len(before.groups)
            old_len == Len(GroupListing(before, last.group))
            target == inputs.groups[last.group + 1]
        IN  /\ Len(inputs.groups) > last.group
            /\ \A i \in (old_groups + 1)..Len(inputs.groups) :
                  i # last.group + 1 => inputs.groups[i].bindings = <<>>
            /\ Len(target.bindings) > last.binding
            /\ \A j \in (old_len + 1)..Len(target.bindings) :
                  target.bindings[j].value = Scalar("F32", 0)
            /\ \A i \in 1..old_groups :
                  /\ Len(inputs.groups[i].bindings) >= Len(before.groups[i].bindings)
                  /\ \A j \in 1..Len(before.groups[i].bindings) :
                        Listing(inputs.groups[i])[j] = Listing(before.groups[i])[j]
            /\ (Content(before) = Content(Uniforms_new({}))
                    /\ last.group = 0 /\ last.binding = 2) =>
                  Values(target) = <<Time, Scalar("F32", 0), Scalar("F32", 0)>>

\* define_binding(3, 1) was called on a set of two groups: group 2 was
\* appended empty and group 3 was appended and given two default bindings
C20_Witness ==
    /\ Defined
    /\ last.group = 3
    /\ last.binding = 1
    /\ Len(last.before.groups) = 2
    /\ Len(inputs.groups) = 4
    /\ inputs.groups[3].bindings = <<>>
    /\ Values(inputs.groups[4]) = <<Scalar("F32", 0), Scalar("F32", 0)>>

(***************************************************************************)
(* The operations on bindings, as the editor and the repairs run them.     *)
(***************************************************************************)
\* the step is the dispatch of this edit event at (g, b)
EditStep(ev) == pc = "ui" /\ last'.op = "edit" /\ last'.event.ev = ev

\* a buffer starts with these words
Holds(buffer, words) ==
    /\ Len(buffer.data) >= Len(words)
    /\ \A i \in 1..Len(words) : buffer.data[i] = words[i]

\* C21: a type change keeps the buffer handle and writes the new bytes into
\* the buffer when the old and the new encoded lengths are equal, and
\* allocates a new buffer of the new length holding the new bytes when they
\* differ; a default Scalar F32(0.0) changed to Vec3<F32> encodes to 12 zero
\* bytes in a newly allocated buffer
C21_TypeChangeWritesOrReallocates ==
    [][EditStep("ChangeType") =>
        LET g == last'.event.g_index
            b == last'.event.b_index
            old == BindingAt(inputs, g, b)
            new == BindingAt(inputs', g, b)
        IN  /\ new.value = cast_to(old.value, last'.event.unitype)
            /\ IF ByteLen(new.value) = ByteLen(old.value)
               THEN /\ new.buffer.id = old.buffer.id
                    /\ new.buffer.size = old.buffer.size
                    /\ Holds(new.buffer, to_le_bytes(new.value))
               ELSE /\ new.buffer.id \notin UsedIds(inputs)
                    /\ new.buffer.size = ByteLen(new.value)
                    /\ new.buffer.data = to_le_bytes(new.value)
            /\ (old.value = Scalar("F32", 0) /\ last'.event.unitype = VecT(3, "F32")) =>
                  /\ new.buffer.data = <<ZeroWord, ZeroWord, ZeroWord>>
                  /\ new.buffer.size = 12
                  /\ new.buffer.id # old.buffer.id
    ]_vars

\* the F32 the rebuild defined at (0, 2) was changed to Vec3<F32>: it holds
\* 12 zero bytes in a buffer of 12 bytes
C21_Witness ==
    /\ last.op = "edit"
    /\ last.event.ev = "ChangeType"
    /\ last.event.unitype = VecT(3, "F32")
    /\ last.event.g_index = 0
    /\ last.event.b_index = 2
    /\ BindingAt(inputs, 0, 2).value = Vector("F32", <<0, 0, 0>>)
    /\ BindingAt(inputs, 0, 2).buffer.size = 12
    /\ BindingAt(inputs, 0, 2).buffer.data = <<ZeroWord, ZeroWord, ZeroWord>>

\* a set with the contents of every buffer left out: values, names, buffer
\* handles and sizes, bind groups, counts and the two locations
Frame(u) ==
    [time_uniform_location |-> u.time_uniform_location,
     camera_uniform_location |-> u.camera_uniform_location,
     groups |-> [g \in 1..Len(u.groups) |->
                   [bind_group |-> u.groups[g].bind_group,
                    bindings |-> [i \in 1..Len(u.groups[g].bindings) |->
                                    [name |-> u.groups[g].bindings[i].name,
                                     value |-> u.groups[g].bindings[i].value,
                                     id |-> u.groups[g].bindings[i].buffer.id,
                                     size |-> u.groups[g].bindings[i].buffer.size]]]]]

\* C22: update_time writes exactly 4 bytes, the elapsed milliseconds, into
\* the existing buffer of the Time binding and changes nothing else: no
\* value, name, buffer handle, bind group, group or binding count, location,
\* nor the contents of any other buffer
C22_UpdateTimeWritesFourBytes ==
    [][(pc = "idle" /\ last'.op = "update_time") =>
        LET loc == inputs.time_uniform_location
            old == BindingAt(inputs, loc[1], loc[2]).buffer
            new == BindingAt(inputs', loc[1], loc[2]).buffer
        IN  /\ Frame(inputs') = Frame(inputs)
            /\ new.data[1] = Word("U32", last'.elapsed_time)
            /\ Len(new.data) = Len(old.data)
            /\ \A i \in 2..Len(old.data) : new.data[i] = old.data[i]
            /\ \A l \in Locations(inputs) :
                  l # loc => BindingAt(inputs', l[1], l[2]) = BindingAt(inputs, l[1], l[2])
    ]_vars

\* a frame of a set with a user binding started at 1 ms: the buffer of Time
\* holds 1
C22_Witness ==
    /\ last.op = "update_time"
    /\ last.elapsed_time = 1
    /\ Len(inputs.groups[1].bindings) > 1
    /\ BindingAt(inputs, 0, 0).value = Time
    /\ BindingAt(inputs, 0, 0).buffer.data = <<Word("U32", 1)>>

\* the bind group of g has one entry per binding, entry i bound to the
\* current buffer of binding i
BindGroupCurrent(g) ==
    /\ Len(g.bind_group) = Len(g.bindings)
    /\ \A i \in 1..Len(g.bindings) :
          /\ g.bind_group[i].id = g.bindings[i].buffer.id
          /\ g.bind_group[i].size = g.bindings[i].buffer.size

\* C23: after every group operation that changes membership or a binding's
\* type or buffer (add_f32, add_custom, define_binding, change_type,
\* change_inner_type, change_matrix_size, change_binding_size) the bind group
\* was built from the group's current ordered binding list; no state is
\* reachable in which a bind group refers to a binding count or a buffer the
\* group no longer has
C23_BindGroupFollowsBindings ==
    \A g \in 1..Len(inputs.groups) : BindGroupCurrent(inputs.groups[g])

\* a size repair has replaced the buffer of a binding by one of 64 bytes,
\* next to another binding in its group, and the bind group is bound to it
C23_Witness ==
    /\ last.op = "change_binding_size"
    /\ last.res.shader_size = 64
    /\ LET g == inputs.groups[last.res.group_index + 1]
       IN  /\ Len(g.bindings) > 1
           /\ g.bindings[last.res.compact_index + 1].buffer.size = 64
           /\ g.bind_group[last.res.compact_index + 1].size = 64
           /\ g.bind_group[last.res.compact_index + 1].id
                 = g.bindings[last.res.compact_index + 1].buffer.id

\* two casts in a row: a scalar of type t1 was cast to t2 and the result
\* was cast to t3
CastTwice(t1, t2, t3) ==
    /\ Cast
    /\ last.origin.some
    /\ last.origin.v.k = "Scalar" /\ last.origin.v.t = t1
    /\ last.from.k = "Scalar" /\ last.from.t = t2
    /\ last.ty = ScalarT(t3)

\* C24: for every U32 value v, Scalar U32(v) cast to I32 and the result cast
\* back to U32 is U32(v) again
C24_RoundTripThroughI32 ==
    CastTwice("U32", "I32", "U32") => last.v = last.origin.v

\* C24, amended: the round trip through I32 recovers every U32 value up to
\* the largest I32 (5 among them); a larger value wraps to a negative I32 and
\* comes back as U32(0)
C24_RoundTripThroughI32Amended ==
    CastTwice("U32", "I32", "U32") =>
        /\ last.origin.v.v[1] <= I32_MAX => last.v = last.origin.v
        /\ last.origin.v.v[1] > I32_MAX =>
              /\ last.from.v[1] < 0
              /\ last.v = Scalar("U32", DEFAULT_U32_UNIFORM)

\* U32(3) went to I32(3) and back to U32(3)
C24_Witness ==
    /\ CastTwice("U32", "I32", "U32")
    /\ last.origin.v = Scalar("U32", 3)
    /\ last.from = Scalar("I32", 3)
    /\ last.v = Scalar("U32", 3)

\* the step is the dispatch of an Increase or Decrease, returned or aborted
StepOf(ev) ==
    /\ pc = "ui"
    /\ \/ last'.op = "edit" /\ last'.event.ev = ev
       \/ last'.op = "panic" /\ last'.where = ev

StepEvent == IF last'.op = "panic" THEN last'.info ELSE last'.event

\* the integer scalar at the event's location after the step is the one
\* before it plus d, the step has not aborted, and the buffer holds the
\* encoding of the new value
Stepped(d) ==
    LET old == BindingAt(inputs, StepEvent.g_index, StepEvent.b_index)
        new == BindingAt(inputs', StepEvent.g_index, StepEvent.b_index)
    IN  old.value.t \in {"U32", "I32"} =>
            /\ pc' # "aborted"
            /\ new.value = Scalar(old.value.t, old.value.v[1] + d)
            /\ new.buffer.id = old.buffer.id
            /\ Holds(new.buffer, to_le_bytes(new.value))
            /\ Len(to_le_bytes(new.value)) = 1

\* C25: for every Scalar of type U32 or I32, the smallest and the largest
\* value of the type included, increase gives the value plus 1 and decrease
\* the value minus 1 without aborting, decrease undoes increase, and after
\* either the buffer holds the 4-byte encoding of the new value
C25_IncreaseDecreaseExact ==
    [][/\ StepOf("Increase") =>
            /\ Stepped(1)
            /\ ScalarUniformValue_decrease(
                  BindingAt(inputs', StepEvent.g_index, StepEvent.b_index).value)
                  = BindingAt(inputs, StepEvent.g_index, StepEvent.b_index).value
       /\ StepOf("Decrease") => Stepped(-1)
    ]_vars

\* C26: change_inner_type(t) on a Vector keeps the arity and replaces every
\* component by the scalar cast of that component to t (nothing changes when
\* t is already the inner type), and its result equals cast_to applied to
\* the same value with the vector type of the same arity and inner type t
C26_ChangeInnerTypeIsCast ==
    last.op = "change_inner_type" =>
        /\ last.v.k = "Vector"
        /\ last.v.t = last.inner_type
        /\ Len(last.v.v) = Len(last.from.v)
        /\ \A i \in 1..Len(last.from.v) :
              last.v.v[i] = cast_num(last.from.t, last.inner_type, last.from.v[i])
        /\ last.inner_type = last.from.t => last.v = last.from
        /\ last.v = cast_to(last.from, VecT(Len(last.from.v), last.inner_type))

\* the call that ended the program was made on a value outside the operation's
\* contract: cast_to (through ChangeType or a size repair) on a BuiltIn,
\* increase / decrease on a value that is not a Scalar, change_inner_type on
\* a value that is not a Vector, change_matrix_size on one that is not a Matrix
ContractViolated ==
    /\ pc = "aborted"
    /\ last.op = "panic"
    /\ \/ /\ last.where = "change_binding_size"
          /\ last.info.shader_size \in TableSizes
          /\ IsBuiltIn(BindingAt(inputs, last.info.group_index,
                                 last.info.compact_index).value)
       \/ /\ last.where \in {"ChangeType", "Increase", "Decrease", "ChangeInnerType",
                             "ChangeMatrixSize"}
          /\ LET v == BindingAt(inputs, last.info.g_index, last.info.b_index).value
             IN  CASE last.where = "ChangeType" -> IsBuiltIn(v)
                   [] last.where \in {"Increase", "Decrease"} -> v.k # "Scalar"
                   [] last.where = "ChangeInnerType" -> v.k # "Vector"
                   [] OTHER -> v.k # "Matrix"

\* C27: no sequence of editor events and reconciler repairs ends in a call
\* outside an operation's contract: cast_to is never made on a BuiltIn (also
\* not by a size repair addressed to the Time or Camera location), increase
\* and decrease only on a Scalar, change_inner_type only on a Vector and
\* change_matrix_size only on a Matrix.
C27_NoContractViolation == ~ContractViolated

\* the Time and Camera locations of a set name bindings of the set that hold
\* the Time and the Camera builtin
BuiltinsInPlace(u) ==
    /\ InRange(u, u.time_uniform_location[1], u.time_uniform_location[2])
    /\ BindingAt(u, u.time_uniform_location[1], u.time_uniform_location[2]).value = Time
    /\ InRange(u, u.camera_uniform_location[1], u.camera_uniform_location[2])
    /\ IsCamera(BindingAt(u, u.camera_uniform_location[1],
                          u.camera_uniform_location[2]).value)

\* C28: in every state the application reaches (the default set, a set
\* accepted by load, a set reached by repairs), the Time location is in range
\* and holds the Time builtin and the Camera location is in range and holds
\* the Camera builtin, and the program never ends in update_time's assertion
\* or enable_camera's match.
C28_BuiltinsInPlace ==
    /\ BuiltinsInPlace(inputs)
    /\ ~(pc = "aborted" /\ last.op = "panic"
         /\ last.where \in {"update_time", "enable_camera"})

\* the active pipeline was built against the layouts of the current set
PipelineCurrent == pipelines.layout = get_pipeline_layout(inputs)

\* C29: whenever a render pass is about to be recorded (either draw of a
\* frame), the active pipeline was built against the layouts of the current
\* set: every change to the set's shape, by an edit event, a size repair or a
\* LoadShader that replaced the set, was followed by a pipeline rebuild
\* before the draw, also when the loaded shader does not compile.
C29_DrawUsesCurrentLayouts == pc \in {"draw1", "draw2"} => PipelineCurrent

\* C30: for every Matrix value, of each of the nine shapes, the record
\* written by to_json (the innertype tag and the columns array) is accepted
\* by from_json and read back as a matrix of the same shape with the same
\* column entries.
C30_MatrixJsonRoundTrip ==
    last.op = "json" =>
        /\ last.read.some
        /\ last.read.v.k = "Matrix"
        /\ last.read.v.m = last.v.m
        /\ last.read.v.cols = last.v.cols

====
